---- MODULE Spec2Model ----
(***************************************************************************)
(* Room runtime of the quiz server (backend/server.py): the in-process     *)
(* ConnectionManager, the socket read loop, the admin control commands,    *)
(* the countdown task, the HTTP submit-answer / join / status handlers and *)
(* the document store and cache they consume.  One quiz code is modelled.  *)
(* Every coroutine is cut at its awaits: one action per run of code        *)
(* between two suspension points, with the handler's position in pc.       *)
(***************************************************************************)
EXTENDS Integers, Sequences, FiniteSets, TLC

\* ---------------------------------------------------------------- bounds
NumQuestions == 2
MaxHistory == 4
MaxPosition == 6
MaxBoard == 3
MaxReactionClock == 4
MaxClock == 2
MaxQueue == 1
MaxAnswers == 2
MaxBatch == 1
max_connections_per_room == 2

Sockets == {"s1", "s2", "s3"}
Pids == {"p1", "p2"}
Requests == {"r1", "r2"}
Joins == {"j1", "j2"}
Tasks == {"t1", "t2"}

\* ------------------------------------------------------ program constants
LOBBY == "lobby"
QUESTION == "question"
ANSWER_REVEAL == "answer_reveal"
LEADERBOARD == "leaderboard"
FINAL_LEADERBOARD == "final_leaderboard"
PODIUM == "podium"
ENDED == "ended"

QuizState == {LOBBY, QUESTION, ANSWER_REVEAL, LEADERBOARD, FINAL_LEADERBOARD, PODIUM, ENDED}

NoTime == 0 - 1
DefaultTimeLimit == 30
CountdownFrom == 5

\* a question document: timeLimit in seconds, correctAnswer an option index,
\* points an explicit integer weight (the variant the test fixture uses)
\* Question.points is Union[int, str]: the setting with its Python type
IntPoints(n) == [is_int |-> TRUE, n |-> n, s |-> ""]
StrPoints(s) == [is_int |-> FALSE, n |-> 0, s |-> s]

Question(tl, ca, w) == [timeLimit |-> tl, correctAnswer |-> ca, points |-> IntPoints(w)]

\* the quiz in the store.  The Question model puts no constraint on
\* timeLimit and calc_points_v2 handles timeLimit = 0, so the last question
\* is given a zero limit.
QuizChoices ==
    { [i \in 1..NumQuestions |-> Question(IF i = NumQuestions THEN 0 ELSE 30, 1, 100)] }

\* the submissions a client makes: <<questionIndex, selectedOption>>, the
\* first question answered right or wrong, the second answered right
Submissions == {<<0, 1>>, <<0, 0>>, <<1, 1>>}
\* timeTaken of a submission, in tenths of a second
SubmitTimes == {50}

VARIABLES
    db_quiz,            \* quizzes collection: <<>> or <<[status, participantCount]>>
    db_questions,       \* questions collection, sorted by index
    db_participants,    \* participants collection: pid -> <<>> or <<doc>>
    used_pids,          \* uuids already handed out by join_quiz
    mem_quiz,           \* QuizCache._mem_quiz: <<>> or <<quiz doc>>
    mem_questions,      \* QuizCache._mem_questions: <<>> or <<question list>>
    active_connections, \* ConnectionManager.active_connections: <<>> or <<set of sockets>>
    room_state,         \* ConnectionManager.room_state: <<>> or <<room record>>
    broadcast_queue,    \* ConnectionManager._broadcast_queue: <<>> or <<sequence of events>>
    ws,                 \* websocket_endpoint invocations, one per socket
    countdown,          \* handle_start_quiz tasks
    http_admin,         \* update_quiz_status request in flight
    req,                \* submit_answer requests in flight
    now,                \* time.time() at its latest read, seconds
    ended_rooms,        \* history: update_quiz_status has put a room into ENDED
    hub_batch,          \* _broadcast_worker's batch, the worker of the room's queue
    orphan_hub,         \* <<>> or <<[queue, batch]>>: a queue and its worker that a
                        \* new room of the code has replaced
    last_frame,         \* <<>> or <<the frame _send_batch sent last>>
    heard,              \* sockets that got a frame off the room's current queue
    state_reply,        \* <<>> or <<the last reply of get_quiz_state>>
    sync_reply,         \* <<>> or <<the last reply to request_state_sync>>
    questions_reply,    \* <<>> or <<the last reply of get_quiz_questions>>
    points_call,        \* <<>> or <<a call of calc_points_v2: arguments, result>>
    leaderboard_call,   \* <<>> or <<a call of calc_leaderboard: arguments, result>>
    db_avatar,          \* participants collection, field avatarSeed: pid -> <<>> or <<seed>>
    join_req            \* join_quiz requests in flight

store == <<db_quiz, db_questions, db_participants, used_pids>>
cache == <<mem_quiz, mem_questions>>
mgr == <<active_connections, room_state, broadcast_queue>>
hub == <<hub_batch, orphan_hub, last_frame, heard>>
replies == <<state_reply, sync_reply, questions_reply>>
calls == <<points_call, leaderboard_call>>
joins == <<db_avatar, join_req>>
vars == <<db_quiz, db_questions, db_participants, used_pids, mem_quiz, mem_questions,
          active_connections, room_state, broadcast_queue, ws, countdown, http_admin,
          req, now, ended_rooms, hub_batch, orphan_hub, last_frame, heard,
          state_reply, sync_reply, questions_reply, points_call, leaderboard_call,
          db_avatar, join_req>>

\* ------------------------------------------------------------ small helpers
HasRoom == room_state # <<>>
Room == room_state[1]
Conns == IF active_connections = <<>> THEN {} ELSE active_connections[1]

Msg(t, q, f, n) == [type |-> t, current_question |-> q, is_final |-> f, n |-> n]

\* ConnectionManager.broadcast: put on the room's queue if it has one
Broadcast(queue, m) == IF queue = <<>> THEN queue ELSE <<Append(queue[1], m)>>

\* room for k more events on the queue (the queue itself is unbounded)
QueueRoom(k) ==
    IF broadcast_queue = <<>> THEN TRUE ELSE Len(broadcast_queue[1]) + k <= MaxQueue

\* ConnectionManager.connect, the "Initialize room" block
NewRoom ==
    [quiz_state |-> LOBBY, current_question |-> 0, total_questions |-> 0,
     participants |-> {}, answered |-> {},
     show_answers |-> FALSE, question_start_time |-> NoTime,
     current_time_limit |-> DefaultTimeLimit,
     last_reaction |-> [p \in Pids |-> NoTime]]

\* ConnectionManager.set_state
set_state(rs, state) == IF rs = <<>> THEN rs ELSE <<[rs[1] EXCEPT !.quiz_state = state]>>

set_question_keeps_limit(rs, index, time_limit, t) ==
    IF rs = <<>> THEN rs
    ELSE <<[rs[1] EXCEPT !.current_question = index,
                         !.answered = {},
                         !.show_answers = FALSE,
                         !.question_start_time = t * 1000]>>

\* ConnectionManager.set_question
set_question(rs, index, time_limit, t) ==
    IF rs = <<>> THEN rs
    ELSE <<[rs[1] EXCEPT !.current_question = index,
                         !.current_time_limit = time_limit,
                         !.answered = {},
                         !.show_answers = FALSE,
                         !.question_start_time = t * 1000]>>

\* ConnectionManager.clear_answers
clear_answers(rs) == IF rs = <<>> THEN rs ELSE <<[rs[1] EXCEPT !.answered = {}]>>

\* ConnectionManager.set_total_questions
set_total_questions(rs, total) ==
    IF rs = <<>> THEN rs ELSE <<[rs[1] EXCEPT !.total_questions = total]>>

\* ConnectionManager.set_show_answers
set_show_answers(rs, show) ==
    IF rs = <<>> THEN rs ELSE <<[rs[1] EXCEPT !.show_answers = show]>>

\* ConnectionManager.add_participant, for a set of participant documents
add_participants(rs, ps) ==
    IF rs = <<>> THEN rs ELSE <<[rs[1] EXCEPT !.participants = @ \cup ps]>>

\* ConnectionManager.mark_answered
mark_answered(rs, user_id) ==
    IF rs = <<>> THEN rs ELSE <<[rs[1] EXCEPT !.answered = @ \cup {user_id}]>>

\* ConnectionManager.has_answered
has_answered(rs, user_id) == IF rs = <<>> THEN FALSE ELSE user_id \in rs[1].answered

\* ConnectionManager.get_state
get_state(rs) == IF rs = <<>> THEN LOBBY ELSE rs[1].quiz_state

\* ConnectionManager.get_question
get_question(rs) == IF rs = <<>> THEN 0 ELSE rs[1].current_question

\* ConnectionManager.get_answer_count, the answered half
get_answer_count_total(rs) == IF rs = <<>> THEN 0 ELSE Cardinality(rs[1].participants)

get_answer_count(rs) == IF rs = <<>> THEN 0 ELSE Cardinality(rs[1].answered)

\* time.time(): the clock has advanced by some amount since it was last read
ReadClock == \E t \in now..MaxClock : now' = t

\* ------------------------------------------------------------------ cache
\* QuizCache.get_quiz / get_questions: an entry is served while it is younger
\* than CACHE_TTL_SEC, which is decided when it is read; hit = it still is
CacheHits(entry) == IF entry # <<>> THEN {TRUE, FALSE} ELSE {FALSE}

\* get_quiz_with_cache: the cached document on a hit, else the store's
QuizRead(hit) == IF hit THEN mem_quiz ELSE db_quiz
\* ... and a miss puts what the store has into the cache
QuizCacheAfterRead(hit) == IF hit THEN mem_quiz ELSE db_quiz

\* get_questions_with_cache
QuestionsRead(hit) == IF hit THEN mem_questions[1] ELSE db_questions
QuestionsCacheAfterRead(hit) ==
    IF hit THEN mem_questions
    ELSE IF db_questions # <<>> THEN <<db_questions>> ELSE <<>>

\* ------------------------------------------------------- socket sessions
\* close_code: the code the server closed the socket with, 0 if it did not;
\* sync: the room_state local of the request_state_sync branch; msg_type: the
\* tag of the last frame that no branch acted on
NoHandler ==
    [st |-> "none", pc |-> "idle", user_id |-> "", is_admin |-> FALSE,
     next_q |-> 0, total_q |-> 0, pid |-> "", close_code |-> 0, sync |-> <<>>,
     msg_type |-> ""]

\* the socket is registered and its read loop is waiting for a frame
Receiving(s) == ws[s].st = "open" /\ ws[s].pc = "recv"

\* ConnectionManager.disconnect: does the room go away with this socket
RoomGone(ac, s) == ac # <<>> /\ ac[1] \ {s} = {}

disconnect_conns(ac, s) ==
    IF ac = <<>> THEN ac ELSE IF RoomGone(ac, s) THEN <<>> ELSE <<ac[1] \ {s}>>

disconnect_room(ac, rs, s, user_id) ==
    IF RoomGone(ac, s) \/ rs = <<>> THEN <<>>
    ELSE IF user_id = "" THEN rs
    ELSE <<[rs[1] EXCEPT !.participants = @ \ {user_id},
                         !.answered = @ \ {user_id}]>>

disconnect_queue(ac, bq, s) == IF RoomGone(ac, s) THEN <<>> ELSE bq

\* ... and the room's worker is cancelled with what its batch holds
disconnect_batch(ac, batch, s) == IF RoomGone(ac, s) THEN <<>> ELSE batch

\* a client opens a socket: websocket_endpoint starts with the "Quick check
\* if quiz ended" through the cache, then awaits manager.connect
WsOpen(s) ==
    /\ ws[s].st = "none"
    /\ \E hit \in CacheHits(mem_quiz) :
         /\ mem_quiz' = QuizCacheAfterRead(hit)
         /\ ws' = [ws EXCEPT ![s] =
                     IF QuizRead(hit) # <<>> /\ QuizRead(hit)[1].status = "ended"
                     THEN NoHandler
                     ELSE [NoHandler EXCEPT !.st = "open", !.pc = "connect"]]
    /\ UNCHANGED <<store, mem_questions, mgr, countdown, http_admin, req, now,
                   ended_rooms, hub, replies, calls, joins>>

AtCapacityOffByOne(ac) ==
    ac # <<>> /\ Cardinality(ac[1]) > max_connections_per_room

\* ConnectionManager.connect, the "Room capacity check"
AtCapacity(ac) ==
    ac # <<>> /\ Cardinality(ac[1]) >= max_connections_per_room

\* ConnectionManager.connect (called without user_id, so that the user_sockets
\* block is skipped): a room at capacity closes the socket with 1013 and the
\* read loop is entered all the same; else the room is created if the code has
\* none and the socket is added.  Fewer than 10 sockets connect per second.
\* left_behind is what becomes of the worker of a queue that close_room left
\* in place, when the queue of a new room replaces that queue.
connect(s, left_behind) ==
    /\ ws[s].pc = "connect"
    /\ IF AtCapacity(active_connections)
       THEN /\ ws' = [ws EXCEPT ![s].st = "closed", ![s].close_code = 1013,
                                ![s].pc = "recv"]
            /\ UNCHANGED <<mgr, hub>>
       ELSE /\ IF active_connections = <<>>
               THEN /\ active_connections' = <<{s}>>
                    /\ room_state' = <<NewRoom>>
                    /\ broadcast_queue' = << <<>> >>
                    /\ hub_batch' = <<>>
                    /\ orphan_hub' = left_behind
                    /\ heard' = {}
                    /\ UNCHANGED last_frame
               ELSE /\ active_connections' = <<active_connections[1] \cup {s}>>
                    /\ UNCHANGED <<room_state, broadcast_queue, hub>>
            /\ ws' = [ws EXCEPT ![s].pc = "recv"]
    /\ UNCHANGED <<store, cache, countdown, http_admin, req, now, ended_rooms, replies, calls, joins>>

\* await manager.connect(websocket, quiz_code); a worker that the new room
\* leaves behind is not followed
WsConnect(s) == connect(s, orphan_hub)

\* the peer closes the transport
ClientClose(s) ==
    /\ ws[s].st = "open"
    /\ ws[s].pc # "connect"
    /\ ws' = [ws EXCEPT ![s].st = "closed"]
    /\ UNCHANGED <<store, cache, mgr, countdown, http_admin, req, now, ended_rooms, hub, replies, calls, joins>>

\* websocket_endpoint: receive fails on a closed transport, finally: disconnect
WsDisconnect(s) ==
    /\ ws[s].st = "closed"
    /\ ws[s].pc \in {"recv", "connect"}
    /\ active_connections' = disconnect_conns(active_connections, s)
    /\ room_state' = disconnect_room(active_connections, room_state, s, ws[s].user_id)
    /\ broadcast_queue' = disconnect_queue(active_connections, broadcast_queue, s)
    /\ hub_batch' = disconnect_batch(active_connections, hub_batch, s)
    /\ heard' = heard \ {s}
    /\ ws' = [ws EXCEPT ![s] = NoHandler]
    /\ UNCHANGED <<store, cache, countdown, http_admin, req, now, ended_rooms,
                   orphan_hub, last_frame, replies, calls, joins>>

\* frame admin_joined, up to the await of get_questions_with_cache
AdminJoined(s) ==
    /\ Receiving(s)
    /\ ws' = [ws EXCEPT ![s].is_admin = TRUE, ![s].user_id = "admin",
                        ![s].pc = "aj_questions"]
    /\ UNCHANGED <<store, cache, mgr, countdown, http_admin, req, now, ended_rooms, hub, replies, calls, joins>>

\* admin_joined, get_questions_with_cache misses the cache and the find on
\* the store raises: no except clause lies between the branch and the outer
\* "except Exception" of websocket_endpoint, which is outside the read loop,
\* so the handler goes to its finally block and manager.disconnect runs while
\* the transport is open
AdminJoinedRaise(s) ==
    /\ ws[s].pc = "aj_questions"
    /\ ws[s].st = "open"
    /\ active_connections' = disconnect_conns(active_connections, s)
    /\ room_state' = disconnect_room(active_connections, room_state, s, ws[s].user_id)
    /\ broadcast_queue' = disconnect_queue(active_connections, broadcast_queue, s)
    /\ hub_batch' = disconnect_batch(active_connections, hub_batch, s)
    /\ heard' = heard \ {s}
    /\ ws' = [ws EXCEPT ![s] = NoHandler]
    /\ UNCHANGED <<store, cache, countdown, http_admin, req, now, ended_rooms,
                   orphan_hub, last_frame, replies, calls, joins>>

\* admin_joined: set_total_questions(len(questions))
AdminJoinedQuestions(s) ==
    /\ ws[s].pc = "aj_questions"
    /\ \E hit \in CacheHits(mem_questions) :
         /\ mem_questions' = QuestionsCacheAfterRead(hit)
         /\ room_state' = set_total_questions(room_state, Len(QuestionsRead(hit)))
    /\ ws' = [ws EXCEPT ![s].pc = "aj_participants"]
    /\ UNCHANGED <<store, mem_quiz, active_connections, broadcast_queue, countdown,
                   http_admin, req, now, ended_rooms, hub, replies, calls, joins>>

\* admin_joined: load the participants of the quiz into the room, send the
\* snapshot to this socket (a send on a closed transport raises: disconnect)
AdminJoinedParticipants(s) ==
    /\ ws[s].pc = "aj_participants"
    /\ LET parts == {p \in Pids : db_participants[p] # <<>>}
           rs == add_participants(room_state, parts)
       IN IF ws[s].st = "closed"
          THEN /\ active_connections' = disconnect_conns(active_connections, s)
               /\ room_state' = disconnect_room(active_connections, rs, s, ws[s].user_id)
               /\ broadcast_queue' = disconnect_queue(active_connections, broadcast_queue, s)
               /\ hub_batch' = disconnect_batch(active_connections, hub_batch, s)
               /\ heard' = heard \ {s}
               /\ ws' = [ws EXCEPT ![s] = NoHandler]
          ELSE /\ room_state' = rs
               /\ ws' = [ws EXCEPT ![s].pc = "recv"]
               /\ UNCHANGED <<active_connections, broadcast_queue, hub_batch, heard>>
    /\ UNCHANGED <<store, cache, countdown, http_admin, req, now, ended_rooms,
                   orphan_hub, last_frame, replies, calls, joins>>

admin_only_skipped(handler) == TRUE

\* "if is_admin:" at the head of the admin branches
admin_only(handler) == handler.is_admin

\* the tags of the admin branches, and a tag that no branch tests for
AdminTags == {"quiz_starting", "show_answer", "show_leaderboard", "next_question",
              "kick_player"}
FrameTags == AdminTags \cup {"unknown"}

\* a frame that no branch acts on: an admin tag on a socket whose is_admin is
\* false, or a tag outside the elif chain; the loop goes back to receive
DroppedFrame(s, tag) ==
    /\ Receiving(s)
    /\ tag \in AdminTags => ~admin_only(ws[s])
    /\ ws' = [ws EXCEPT ![s].msg_type = tag]
    /\ UNCHANGED <<store, cache, mgr, countdown, http_admin, req, now, ended_rooms,
                   hub, replies, calls, joins>>

\* frame quiz_starting from an admin socket: create the countdown task t
QuizStarting(s, t) ==
    /\ Receiving(s)
    /\ admin_only(ws[s])
    /\ countdown[t].pc = "idle"
    /\ countdown' = [countdown EXCEPT ![t].pc = "load"]
    /\ UNCHANGED <<store, cache, mgr, ws, http_admin, req, now, ended_rooms, hub, replies, calls, joins>>

\* frame show_answer from an admin socket
ShowAnswer(s) ==
    /\ Receiving(s)
    /\ admin_only(ws[s])
    /\ QueueRoom(1)
    /\ room_state' = set_show_answers(set_state(room_state, ANSWER_REVEAL), TRUE)
    /\ broadcast_queue' = Broadcast(broadcast_queue, Msg("show_answer", 0, FALSE, 0))
    /\ UNCHANGED <<store, cache, active_connections, ws, countdown, http_admin, req,
                   now, ended_rooms, hub, replies, calls, joins>>

LeaderboardStateOffByOne(current_q, total_q) ==
    IF current_q >= total_q THEN FINAL_LEADERBOARD ELSE LEADERBOARD

\* show_leaderboard: the phase it selects
LeaderboardState(current_q, total_q) ==
    IF current_q >= total_q - 1 THEN FINAL_LEADERBOARD ELSE LEADERBOARD

\* frame show_leaderboard from an admin socket
ShowLeaderboard(s) ==
    /\ Receiving(s)
    /\ admin_only(ws[s])
    /\ HasRoom
    /\ QueueRoom(1)
    /\ LET current_q == get_question(room_state)
           total_q == Room.total_questions
       IN /\ room_state' = set_state(room_state, LeaderboardState(current_q, total_q))
          /\ broadcast_queue' = Broadcast(broadcast_queue,
                 Msg("show_leaderboard", current_q, current_q >= total_q - 1, total_q))
    /\ UNCHANGED <<store, cache, active_connections, ws, countdown, http_admin, req,
                   now, ended_rooms, hub, replies, calls, joins>>

HasNextOffByOne(next_q, total_q) == next_q <= total_q

\* next_question: "if next_q < total_q"
HasNext(next_q, total_q) == next_q < total_q

\* frame next_question from an admin socket: read the index, then either
\* await the question list or go to the podium
NextQuestion(s) ==
    /\ Receiving(s)
    /\ admin_only(ws[s])
    /\ HasRoom
    /\ LET current_q == get_question(room_state)
           total_q == Room.total_questions
           next_q == current_q + 1
       IN IF HasNext(next_q, total_q)
          THEN /\ ws' = [ws EXCEPT ![s].pc = "nq", ![s].next_q = next_q,
                                   ![s].total_q = total_q]
               /\ UNCHANGED <<room_state, broadcast_queue>>
          ELSE /\ QueueRoom(1)
               /\ room_state' = set_state(room_state, PODIUM)
               /\ broadcast_queue' = Broadcast(broadcast_queue,
                                               Msg("show_podium", 0, FALSE, 0))
               /\ UNCHANGED ws
    /\ UNCHANGED <<store, cache, active_connections, countdown, http_admin, req, now,
                   ended_rooms, hub, replies, calls, joins>>

\* the time limit next_question and handle_start_quiz read off a question
TimeLimitOf(questions, index) ==
    IF index < Len(questions) THEN questions[index + 1].timeLimit ELSE DefaultTimeLimit

\* next_question, after the question list arrived: set the question
NextQuestionSet(s) ==
    /\ ws[s].pc = "nq"
    /\ QueueRoom(1)
    /\ ReadClock
    /\ \E hit \in CacheHits(mem_questions) :
         LET next_q == ws[s].next_q
         IN /\ mem_questions' = QuestionsCacheAfterRead(hit)
            /\ room_state' = set_state(clear_answers(
                   set_question(room_state, next_q,
                                TimeLimitOf(QuestionsRead(hit), next_q), now')), QUESTION)
            /\ broadcast_queue' = Broadcast(broadcast_queue,
                   Msg("next_question", next_q, FALSE, ws[s].total_q))
    /\ ws' = [ws EXCEPT ![s].pc = "recv", ![s].next_q = 0, ![s].total_q = 0]
    /\ UNCHANGED <<store, mem_quiz, active_connections, countdown, http_admin, req,
                   ended_rooms, hub, replies, calls, joins>>

\* frame auto_submit, from any socket, for any participantId
AutoSubmit(s, p) ==
    /\ Receiving(s)
    /\ QueueRoom(1)
    /\ LET rs == mark_answered(room_state, p)
       IN /\ room_state' = rs
          /\ broadcast_queue' = Broadcast(broadcast_queue,
                 Msg("answer_count", 0, FALSE, get_answer_count(rs)))
    /\ UNCHANGED <<store, cache, active_connections, ws, countdown, http_admin, req,
                   now, ended_rooms, hub, replies, calls, joins>>

\* ---------------------------------------------------------------- reaction
\* the emoji a reaction frame carries: one of the allow-list, one outside it
Emojis == {"fire", "skull"}
allowed == {"fire"}

\* seconds that must separate two reactions of one user
ReactionGap == 2

\* a reaction event
ReactionMsg(emoji, userId) == [type |-> "reaction", emoji |-> emoji, userId |-> userId]

reaction_gap_one(rs, user_id, t) ==
    \/ rs = <<>>
    \/ rs[1].last_reaction[user_id] = NoTime
    \/ t - rs[1].last_reaction[user_id] >= 1

\* "now - last_reaction >= 2.0", last_reaction being 0 for a user without an
\* entry (the clock is far beyond 2 s after the epoch) or without a room
reaction_gap(rs, user_id, t) ==
    \/ rs = <<>>
    \/ rs[1].last_reaction[user_id] = NoTime
    \/ t - rs[1].last_reaction[user_id] >= ReactionGap

\* frame reaction: broadcast if the emoji is allowed, the socket has a
\* user_id, is not an admin socket and the user's last reaction is 2 s old;
\* the time of the broadcast is then stored in the room state
Reaction(s, emoji) ==
    /\ Receiving(s)
    /\ QueueRoom(1)
    /\ IF emoji \in allowed /\ ws[s].user_id # "" /\ ~ws[s].is_admin
       THEN /\ \E t \in now..MaxReactionClock : now' = t
            /\ IF reaction_gap(room_state, ws[s].user_id, now')
               THEN /\ room_state' =
                         IF room_state = <<>> THEN room_state
                         ELSE <<[room_state[1] EXCEPT
                                   !.last_reaction[ws[s].user_id] = now']>>
                    /\ broadcast_queue' = Broadcast(broadcast_queue,
                           ReactionMsg(emoji, ws[s].user_id))
                    /\ UNCHANGED ws
               ELSE /\ ws' = [ws EXCEPT ![s].msg_type = "reaction"]
                    /\ UNCHANGED <<room_state, broadcast_queue>>
       ELSE /\ ws' = [ws EXCEPT ![s].msg_type = "reaction"]
            /\ UNCHANGED <<room_state, broadcast_queue, now>>
    /\ UNCHANGED <<store, cache, active_connections, countdown, http_admin, req,
                   ended_rooms, hub, replies, calls, joins>>

\* frame participant_joined: user_id is bound to the socket, then the
\* participant document is looked up in the store
ParticipantJoined(s, p) ==
    /\ Receiving(s)
    /\ ws' = [ws EXCEPT ![s].user_id = p,
                        ![s].pc = IF db_participants[p] # <<>> THEN "pj" ELSE "recv"]
    /\ UNCHANGED <<store, cache, mgr, countdown, http_admin, req, now, ended_rooms, hub, replies, calls, joins>>

\* participant_joined, the document was found: add_participant, send
\* sync_state to this socket (a send on a closed transport raises:
\* disconnect), broadcast participant_joined
ParticipantJoinedSync(s) ==
    /\ ws[s].pc = "pj"
    /\ QueueRoom(1)
    /\ LET rs == add_participants(room_state, {ws[s].user_id})
       IN /\ \E hit \in CacheHits(mem_questions) :
               mem_questions' = IF get_state(rs) \in {QUESTION, ANSWER_REVEAL}
                                THEN QuestionsCacheAfterRead(hit) ELSE mem_questions
          /\ IF ws[s].st = "closed"
             THEN /\ active_connections' = disconnect_conns(active_connections, s)
                  /\ room_state' = disconnect_room(active_connections, rs, s, ws[s].user_id)
                  /\ broadcast_queue' = disconnect_queue(active_connections, broadcast_queue, s)
                  /\ hub_batch' = disconnect_batch(active_connections, hub_batch, s)
                  /\ heard' = heard \ {s}
                  /\ ws' = [ws EXCEPT ![s] = NoHandler]
             ELSE /\ room_state' = rs
                  /\ broadcast_queue' = Broadcast(broadcast_queue,
                         Msg("participant_joined", 0, FALSE, 0))
                  /\ ws' = [ws EXCEPT ![s].pc = "recv"]
                  /\ UNCHANGED <<active_connections, hub_batch, heard>>
    /\ UNCHANGED <<store, mem_quiz, countdown, http_admin, req, now, ended_rooms,
                   orphan_hub, last_frame, replies, calls, joins>>

\* frame kick_player from an admin socket: find_one_and_delete of the
\* participant document
KickPlayer(s, p) ==
    /\ Receiving(s)
    /\ admin_only(ws[s])
    /\ IF db_participants[p] # <<>>
       THEN /\ db_participants' = [db_participants EXCEPT ![p] = <<>>]
            /\ db_avatar' = [db_avatar EXCEPT ![p] = <<>>]
            /\ ws' = [ws EXCEPT ![s].pc = "kick", ![s].pid = p]
       ELSE UNCHANGED <<db_participants, db_avatar, ws>>
    /\ UNCHANGED <<db_quiz, db_questions, used_pids, cache, mgr, countdown, http_admin,
                   req, now, ended_rooms, hub, replies, calls, join_req>>

\* kick_player, a document was deleted: decrement participantCount, pop the
\* id from the room's participants, broadcast participant_kicked.
\* user_sockets has no entry (connect is called without user_id), so no
\* socket is closed
KickPlayerRemove(s) ==
    /\ ws[s].pc = "kick"
    /\ QueueRoom(1)
    /\ db_quiz' = IF db_quiz = <<>> THEN db_quiz
                  ELSE <<[db_quiz[1] EXCEPT !.participantCount = @ - 1]>>
    /\ room_state' = IF room_state = <<>> THEN room_state
                     ELSE <<[Room EXCEPT !.participants = @ \ {ws[s].pid}]>>
    /\ broadcast_queue' = Broadcast(broadcast_queue, Msg("participant_kicked", 0, FALSE, 0))
    /\ ws' = [ws EXCEPT ![s].pc = "recv", ![s].pid = ""]
    /\ UNCHANGED <<db_questions, db_participants, used_pids, cache, active_connections,
                   countdown, http_admin, req, now, ended_rooms, hub, replies, calls, joins>>

\* ------------------------------------------------- handle_start_quiz task
NoTask == [pc |-> "idle", i |-> 0, questions |-> <<>>]

\* handle_start_quiz up to the first sleep: load the questions, record the
\* total, broadcast countdown_start
StartQuizLoad(t) ==
    /\ countdown[t].pc = "load"
    /\ QueueRoom(1)
    /\ \E hit \in CacheHits(mem_questions) :
         LET questions == QuestionsRead(hit)
         IN /\ mem_questions' = QuestionsCacheAfterRead(hit)
            /\ IF questions = <<>>
               THEN /\ countdown' = [countdown EXCEPT ![t] = NoTask]
                    /\ UNCHANGED <<room_state, broadcast_queue>>
               ELSE /\ countdown' = [countdown EXCEPT ![t] =
                           [pc |-> "tick", i |-> CountdownFrom - 1,
                            questions |-> questions]]
                    /\ room_state' = set_total_questions(room_state, Len(questions))
                    /\ broadcast_queue' = Broadcast(broadcast_queue,
                           Msg("countdown_start", 0, FALSE, CountdownFrom))
    /\ UNCHANGED <<store, mem_quiz, active_connections, ws, http_admin, req, now,
                   ended_rooms, hub, replies, calls, joins>>

StartQuizTickForever(t) ==
    /\ countdown[t].pc = "tick"
    /\ QueueRoom(1)
    /\ broadcast_queue' = Broadcast(broadcast_queue,
           Msg("countdown_tick", 0, FALSE, countdown[t].i))
    /\ countdown' = [countdown EXCEPT ![t].i = IF @ = 1 THEN CountdownFrom - 1 ELSE @ - 1]
    /\ UNCHANGED <<store, cache, active_connections, room_state, ws, http_admin, req,
                   now, ended_rooms, hub, replies, calls, joins>>

\* handle_start_quiz: one pass of "for i in range(4, 0, -1)" after its sleep
StartQuizTick(t) ==
    /\ countdown[t].pc = "tick"
    /\ QueueRoom(1)
    /\ broadcast_queue' = Broadcast(broadcast_queue,
           Msg("countdown_tick", 0, FALSE, countdown[t].i))
    /\ countdown' = [countdown EXCEPT ![t].i = @ - 1,
                                      ![t].pc = IF countdown[t].i = 1 THEN "final" ELSE "tick"]
    /\ UNCHANGED <<store, cache, active_connections, room_state, ws, http_admin, req,
                   now, ended_rooms, hub, replies, calls, joins>>

\* handle_start_quiz after the final sleep: "Now start Q1"
StartQuizFinish(t) ==
    /\ countdown[t].pc = "final"
    /\ QueueRoom(1)
    /\ ReadClock
    /\ room_state' = set_question(set_state(room_state, QUESTION), 0,
                                  TimeLimitOf(countdown[t].questions, 0), now')
    /\ broadcast_queue' = Broadcast(broadcast_queue,
           Msg("quiz_starting", 0, FALSE, Len(countdown[t].questions)))
    /\ countdown' = [countdown EXCEPT ![t] = NoTask]
    /\ UNCHANGED <<store, cache, active_connections, ws, http_admin, req,
                   ended_rooms, hub, replies, calls, joins>>

\* ------------------------------------------------------ update_quiz_status
NoAdminRequest == [pc |-> "idle", status |-> ""]

\* update_quiz_status: db.quizzes.update_one.  The call of
\* quiz_cache.invalidate that follows is not awaited, so its body never runs
\* and the cache keeps what it holds.
UpdateQuizStatus(status) ==
    /\ http_admin.pc = "idle"
    /\ db_quiz # <<>>
    /\ db_quiz' = <<[db_quiz[1] EXCEPT !.status = status]>>
    /\ http_admin' = [pc |-> "status_set", status |-> status]
    /\ ended_rooms' = IF status = "ended" THEN ended_rooms ELSE FALSE
    /\ UNCHANGED <<db_questions, db_participants, used_pids, cache, mgr, ws, countdown,
                   req, now, hub, replies, calls, joins>>

\* update_quiz_status with status ended: set_state(ENDED), broadcast
\* quiz_ended, enter close_room; any other status: broadcast the change
UpdateQuizStatusEnded ==
    /\ http_admin.pc = "status_set"
    /\ QueueRoom(1)
    /\ IF http_admin.status = "ended"
       THEN /\ room_state' = set_state(room_state, ENDED)
            /\ broadcast_queue' = Broadcast(broadcast_queue, Msg("quiz_ended", 0, FALSE, 0))
            /\ ended_rooms' = (ended_rooms \/ (HasRoom /\ db_quiz # <<>>
                                                /\ db_quiz[1].status = "ended"))
            /\ http_admin' = [http_admin EXCEPT !.pc = "close_room"]
       ELSE /\ broadcast_queue' = Broadcast(broadcast_queue,
                   Msg("quiz_status_changed", 0, FALSE, 0))
            /\ http_admin' = NoAdminRequest
            /\ UNCHANGED <<room_state, ended_rooms, hub, replies, calls, joins>>
    /\ UNCHANGED <<store, cache, active_connections, ws, countdown, req, now, hub,
                   replies, calls, joins>>

\* ConnectionManager.close_room, then the quiz_status_changed broadcast:
\* every socket of the room is closed, the connection set and the room state
\* are deleted; the queue and the worker are left in place.  The closes of
\* the sockets are taken as one step with the deletion.
close_room ==
    /\ http_admin.pc = "close_room"
    /\ QueueRoom(1)
    /\ IF active_connections # <<>>
       THEN /\ ws' = [s \in Sockets |->
                        IF s \in active_connections[1] /\ ws[s].st = "open"
                        THEN [ws[s] EXCEPT !.st = "closed", !.close_code = 1000]
                        ELSE ws[s]]
            /\ active_connections' = <<>>
            /\ room_state' = <<>>
       ELSE UNCHANGED <<ws, active_connections, room_state>>
    /\ broadcast_queue' = Broadcast(broadcast_queue,
           Msg("quiz_status_changed", 0, FALSE, 0))
    /\ http_admin' = NoAdminRequest
    /\ UNCHANGED <<store, cache, countdown, req, now, ended_rooms, hub, replies, calls, joins>>

\* ------------------------------------------------------------- join_quiz
NewParticipant == [score |-> 0, answers |-> <<>>]

\* generate_unique_avatar: a seed built from a fresh uuid4 and the clock; the
\* model names it by the participant it is generated for
generate_unique_avatar(p) == p

\* is_avatar_unique: find_one on (quizCode, avatarSeed) finds no document
is_avatar_unique(seed) ==
    \A q \in Pids : db_participants[q] = <<>> \/ db_avatar[q] # <<seed>>

NoJoin == [pc |-> "idle", pid |-> "", avatarSeed |-> ""]

\* avatarSeed values a client sends with its join request
ClientSeeds == {"a1", "a2"}

\* join_quiz with a client-supplied avatarSeed, up to the insert: the quiz is
\* read through the cache and must be active, the seed is kept if
\* is_avatar_unique finds no document with it and replaced by a generated one
\* otherwise, and the uuid of the participant is drawn
JoinQuizAvatar(j, p, seed) ==
    /\ join_req[j].pc = "idle"
    /\ p \notin used_pids
    /\ \E hit \in CacheHits(mem_quiz) :
         /\ mem_quiz' = QuizCacheAfterRead(hit)
         /\ IF QuizRead(hit) # <<>> /\ QuizRead(hit)[1].status = "active"
            THEN /\ join_req' = [join_req EXCEPT ![j] =
                        [pc |-> "insert", pid |-> p,
                         avatarSeed |-> IF is_avatar_unique(seed) THEN seed
                                        ELSE generate_unique_avatar(p)]]
                 /\ used_pids' = used_pids \cup {p}
            ELSE UNCHANGED <<join_req, used_pids>>
    /\ UNCHANGED <<db_quiz, db_questions, db_participants, db_avatar, mem_questions,
                   mgr, ws, countdown, http_admin, req, now, ended_rooms, hub,
                   replies, calls>>

\* join_quiz, the gather: the participant document is inserted with the seed
\* chosen before and participantCount is incremented
JoinQuizInsert(j) ==
    /\ join_req[j].pc = "insert"
    /\ db_participants' = [db_participants EXCEPT ![join_req[j].pid] = <<NewParticipant>>]
    /\ db_avatar' = [db_avatar EXCEPT ![join_req[j].pid] = <<join_req[j].avatarSeed>>]
    /\ db_quiz' = IF db_quiz = <<>> THEN db_quiz
                  ELSE <<[db_quiz[1] EXCEPT !.participantCount = @ + 1]>>
    /\ join_req' = [join_req EXCEPT ![j] = NoJoin]
    /\ UNCHANGED <<db_questions, used_pids, cache, mgr, ws, countdown, http_admin,
                   req, now, ended_rooms, hub, replies, calls>>

\* join_quiz without avatarSeed: the quiz is read through the cache and must
\* be active; a seed is generated, a fresh uuid is drawn, the participant
\* document is inserted and participantCount is incremented
JoinQuiz(p) ==
    /\ p \notin used_pids
    /\ \E hit \in CacheHits(mem_quiz) :
         /\ mem_quiz' = QuizCacheAfterRead(hit)
         /\ IF QuizRead(hit) # <<>> /\ QuizRead(hit)[1].status = "active"
            THEN /\ db_participants' = [db_participants EXCEPT ![p] = <<NewParticipant>>]
                 /\ db_avatar' = [db_avatar EXCEPT ![p] = <<generate_unique_avatar(p)>>]
                 /\ used_pids' = used_pids \cup {p}
                 /\ db_quiz' = IF db_quiz = <<>> THEN db_quiz
                               ELSE <<[db_quiz[1] EXCEPT !.participantCount = @ + 1]>>
            ELSE UNCHANGED <<db_participants, db_avatar, used_pids, db_quiz>>
    /\ UNCHANGED <<db_questions, mem_questions, mgr, ws, countdown, http_admin, req,
                   now, ended_rooms, hub, replies, calls, join_req>>

\* ---------------------------------------------------------- calc_points_v2
Max(a, b) == IF a >= b THEN a ELSE b
Min(a, b) == IF a <= b THEN a ELSE b

\* calc_points_v2: the run of correct answers at the end of previous_answers
RECURSIVE consecutive_correct(_)
consecutive_correct(previous_answers) ==
    IF previous_answers = <<>> THEN 0
    ELSE IF previous_answers[Len(previous_answers)].isCorrect
         THEN 1 + consecutive_correct(SubSeq(previous_answers, 1,
                                             Len(previous_answers) - 1))
         ELSE 0

\* calc_points_v2: the speed bonus; time_taken is in tenths of a second,
\* time_limit in seconds
speed_bonus(max_base, time_taken, time_limit) ==
    IF time_taken < 3 THEN max_base \div 2
    ELSE IF time_taken >= time_limit * 10 THEN 0
    ELSE ((max_base \div 2) * (time_limit * 10 - time_taken)
                            * (time_limit * 10 - time_taken))
             \div ((time_limit * 10) * (time_limit * 10))

streak_percent_one_late(current_streak) ==
    IF current_streak >= 6 THEN 30
    ELSE IF current_streak >= 5 THEN 20
    ELSE IF current_streak >= 4 THEN 10
    ELSE IF current_streak >= 3 THEN 5
    ELSE 0

\* calc_points_v2: the streak percentage
streak_percent(current_streak) ==
    IF current_streak >= 5 THEN 30
    ELSE IF current_streak >= 4 THEN 20
    ELSE IF current_streak >= 3 THEN 10
    ELSE IF current_streak >= 2 THEN 5
    ELSE 0

position_bonus_from_six(answer_position) == Max(0, 6 - Min(answer_position, 6))

\* calc_points_v2: "max(0, 6 - min(answer_position + 1, 6))"
position_bonus(answer_position) == Max(0, 6 - Min(answer_position + 1, 6))

Points(b, t, k) == [base_pts |-> b, time_bonus |-> t, streak_bonus |-> k]

\* calc_points_v2: max_base for a points setting other than "noPoints"
max_base_of(pts_cfg) ==
    IF pts_cfg.is_int THEN pts_cfg.n
    ELSE IF pts_cfg.s = "standard" THEN 1000
    ELSE IF pts_cfg.s = "double" THEN 2000
    ELSE 1000

\* calc_points_v2
calc_points_v2(question, correct, time_taken, previous_answers, answer_position) ==
    IF ~correct THEN Points(0, 0, 0)
    ELSE IF ~question.points.is_int /\ question.points.s = "noPoints" THEN Points(0, 0, 0)
    ELSE IF question.timeLimit = 0 THEN Points(max_base_of(question.points), 0, 0)
    ELSE LET max_base == max_base_of(question.points)
             base_points == max_base \div 2
             time_bonus == speed_bonus(max_base, time_taken, question.timeLimit)
             current_streak == consecutive_correct(previous_answers) + 1
             subtotal == base_points + time_bonus
         IN Points(base_points,
                   time_bonus + position_bonus(answer_position),
                   (subtotal * streak_percent(current_streak)) \div 100)

\* ----------------------------------------------------------- submit_answer
\* reply: the status of the early reply that ended the last request, else 0
NoRequest == [pc |-> "idle", participantId |-> "", questionIndex |-> 0,
              selectedOption |-> 0, timeTaken |-> 0, after_success |-> FALSE,
              ans_rec |-> <<>>, reply |-> 0, answer_position |-> 0]

StoredAnswers(p) == IF db_participants[p] = <<>> THEN <<>> ELSE db_participants[p][1].answers

\* answer records stored plus submissions in progress
AnswersInPlay ==
    LET RECURSIVE Stored(_)
        Stored(ps) == IF ps = {} THEN 0
                      ELSE LET p == CHOOSE x \in ps : TRUE
                           IN Len(StoredAnswers(p)) + Stored(ps \ {p})
    IN Stored(Pids) + Cardinality({r \in Requests : req[r].pc # "idle"})

\* a submission for (p, i) made after one for (p, i) was stored and every
\* other submission of p has returned
AfterSuccess(r, p, i) ==
    /\ \E k \in 1..Len(StoredAnswers(p)) : StoredAnswers(p)[k].questionIndex = i
    /\ \A r2 \in Requests \ {r} : req[r2].pc = "idle" \/ req[r2].participantId # p

\* the slot a new request is handled in (the slots are interchangeable)
FreeSlot == CHOOSE r \in Requests : req[r].pc = "idle"

early_reply_phase_first(rs, p) ==
    IF get_state(rs) \in {ENDED, PODIUM} THEN 200
    ELSE IF has_answered(rs, p) THEN 400
    ELSE 0

\* submit_answer, "Early validation": the status of the reply it ends the
\* request with (400 already answered, 200 with "ignored"), 0 if it does not
early_reply(rs, p) ==
    IF has_answered(rs, p) THEN 400
    ELSE IF get_state(rs) \in {ENDED, PODIUM} THEN 200
    ELSE 0

\* submit_answer, the early validation against the manager: a participant in
\* the answered set gets 400, a room in ENDED or PODIUM gets the "ignored"
\* reply; otherwise the three lookups are awaited
SubmitAnswer(r, p, i, o, tt) ==
    /\ req[r].pc = "idle"
    /\ r = FreeSlot
    /\ AnswersInPlay < MaxAnswers
    /\ IF early_reply(room_state, p) # 0
       THEN req' = [req EXCEPT ![r].reply = early_reply(room_state, p)]
       ELSE req' = [req EXCEPT ![r] =
                      [pc |-> "fetch", participantId |-> p, questionIndex |-> i,
                       selectedOption |-> o, timeTaken |-> tt,
                       after_success |-> AfterSuccess(r, p, i), ans_rec |-> <<>>,
                       reply |-> 0, answer_position |-> 0]]
    /\ UNCHANGED <<store, cache, mgr, ws, countdown, http_admin, now, ended_rooms, hub, replies, calls, joins>>

\* db.questions.find_one({"quizCode", "index"})
FindQuestion(index) ==
    IF 0 <= index /\ index < Len(db_questions) THEN <<db_questions[index + 1]>> ELSE <<>>

\* submit_answer: the answer record built from the lookups
AnswerRecord(a, q, previous_answers, answer_position) ==
    LET is_correct == q.correctAnswer = a.selectedOption
        pts == calc_points_v2(q, is_correct, a.timeTaken, previous_answers,
                              answer_position)
    IN [questionIndex |-> a.questionIndex, isCorrect |-> is_correct,
        points |-> pts.base_pts + pts.time_bonus + pts.streak_bonus,
        basePoints |-> pts.base_pts]

\* submit_answer after the lookups: the status of the error it raises, 0 if
\* it raises none
lookup_reply(quiz, p, q) ==
    IF quiz = <<>> THEN 404
    ELSE IF quiz[1].status = "ended" THEN 400
    ELSE IF p = <<>> THEN 403
    ELSE IF q = <<>> THEN 404
    ELSE 0

\* submit_answer after the lookups: 404 without quiz or question, 400 on an
\* ended quiz, 403 without participant; else validate, read the position off
\* the room, compute the points and load the question list
SubmitFetch(r) ==
    /\ req[r].pc = "fetch"
    /\ \E hit \in CacheHits(mem_quiz), hit_q \in CacheHits(mem_questions) :
         LET quiz == QuizRead(hit)
             q == FindQuestion(req[r].questionIndex)
             p == db_participants[req[r].participantId]
             answer_position == get_answer_count(room_state)
         IN /\ mem_quiz' = QuizCacheAfterRead(hit)
            /\ IF lookup_reply(quiz, p, q) # 0
               THEN /\ req' = [req EXCEPT ![r] = NoRequest]
                    /\ UNCHANGED mem_questions
               ELSE /\ req' = [req EXCEPT ![r].pc = "persist",
                                          ![r].answer_position = answer_position,
                                          ![r].ans_rec = <<AnswerRecord(req[r], q[1],
                                                             p[1].answers,
                                                             answer_position)>>]
                    /\ mem_questions' = QuestionsCacheAfterRead(hit_q)
    /\ UNCHANGED <<store, mgr, ws, countdown, http_admin, now, ended_rooms, hub, replies, calls, joins>>

update_one_inc_base(doc, rec) ==
    IF doc = <<>> THEN doc
    ELSE <<[doc[1] EXCEPT !.score = @ + rec.basePoints, !.answers = Append(@, rec)]>>

\* db.participants.update_one({"id"}, {"$inc": {"score"}, "$push": {"answers"}})
update_one(doc, rec) ==
    IF doc = <<>> THEN doc
    ELSE <<[doc[1] EXCEPT !.score = @ + rec.points, !.answers = Append(@, rec)]>>

\* submit_answer: the update of the participant document
SubmitPersist(r) ==
    /\ req[r].pc = "persist"
    /\ db_participants' = [db_participants EXCEPT ![req[r].participantId] =
                              update_one(@, req[r].ans_rec[1])]
    /\ req' = [req EXCEPT ![r].pc = "mark"]
    /\ UNCHANGED <<db_quiz, db_questions, used_pids, cache, mgr, ws, countdown,
                   http_admin, now, ended_rooms, hub, replies, calls, joins>>

\* submit_answer after the update: mark_answered, broadcast answer_count
\* and, if the room exists, answer_stats; reply 200
SubmitMark(r) ==
    /\ req[r].pc = "mark"
    /\ QueueRoom(1)
    /\ LET rs == mark_answered(room_state, req[r].participantId)
           counted == Broadcast(broadcast_queue,
                          Msg("answer_count", 0, FALSE, get_answer_count(rs)))
       IN /\ room_state' = rs
          /\ broadcast_queue' =
               IF rs = <<>> THEN counted
               ELSE Broadcast(counted, Msg("answer_stats", req[r].questionIndex, FALSE,
                                           get_answer_count(rs)))
    /\ req' = [req EXCEPT ![r] = NoRequest]
    /\ UNCHANGED <<store, cache, active_connections, ws, countdown, http_admin, now,
                   ended_rooms, hub, replies, calls, joins>>

\* ---------------------------------------------------------- broadcast hub
\* _broadcast_worker / _send_batch: take the next event off the queue and
\* send it to every socket of the room; a socket whose send fails is dropped
\* from the connection set
BroadcastWorker ==
    /\ broadcast_queue # <<>>
    /\ broadcast_queue[1] # <<>>
    /\ broadcast_queue' = <<Tail(broadcast_queue[1])>>
    /\ active_connections' =
         IF active_connections = <<>> THEN <<>>
         ELSE <<{s \in active_connections[1] : ws[s].st = "open"}>>
    /\ UNCHANGED <<store, cache, room_state, ws, countdown, http_admin, req, now,
                   ended_rooms, hub, replies, calls, joins>>

\* ------------------------------------------------ broadcast hub, in detail
\* _broadcast_worker: the types whose event is sent as soon as it is taken
CriticalTypes ==
    {"quiz_starting", "next_question", "show_answer", "show_leaderboard",
     "show_podium", "sync_state", "question_time_sync"}

\* a frame as the sockets in `to` got it from worker `from`: the one message,
\* or the messages of a {"type": "batch"} frame in their order
Frame(from, to, messages) == [from |-> from, to |-> to, messages |-> messages]

\* _send_batch: the connections of the code whose send succeeds
Reached ==
    IF active_connections = <<>> THEN {}
    ELSE {s \in active_connections[1] : ws[s].st = "open"}

\* _send_batch(messages), called by the worker of the room's queue ("room")
\* or by a worker left behind ("left"): nothing without connections; else
\* the frame goes to every connection and those whose send fails are dropped
send_batch(from, messages) ==
    IF active_connections = <<>>
    THEN UNCHANGED <<active_connections, last_frame, heard>>
    ELSE /\ active_connections' = <<Reached>>
         /\ last_frame' = IF Reached = {} THEN last_frame
                          ELSE <<Frame(from, Reached, messages)>>
         /\ heard' = IF from = "room" THEN heard \cup Reached ELSE heard

\* "if is_critical or (batch and current_time - last_send > 0.01)"; elapsed:
\* more than 10 ms have passed since last_send.  A batch that is held back
\* holds MaxBatch events at most.
FlushNow(batch, message, elapsed) ==
    message.type \in CriticalTypes \/ elapsed

\* _broadcast_worker: queue.get() returns an event, which joins the batch;
\* the batch is sent or held back
WorkerGet(elapsed) ==
    /\ broadcast_queue # <<>>
    /\ broadcast_queue[1] # <<>>
    /\ LET message == Head(broadcast_queue[1])
           batch == Append(hub_batch, message)
       IN /\ broadcast_queue' = <<Tail(broadcast_queue[1])>>
          /\ IF FlushNow(batch, message, elapsed)
             THEN /\ send_batch("room", batch)
                  /\ hub_batch' = <<>>
             ELSE /\ Len(batch) <= MaxBatch
                  /\ hub_batch' = batch
                  /\ UNCHANGED <<active_connections, last_frame, heard>>
    /\ UNCHANGED <<store, cache, room_state, ws, countdown, http_admin, req, now,
                   ended_rooms, orphan_hub, replies, calls, joins>>

\* _broadcast_worker: queue.get() times out after 10 ms, "Send any pending
\* messages"
WorkerTimeout ==
    /\ broadcast_queue # <<>>
    /\ broadcast_queue[1] = <<>>
    /\ hub_batch # <<>>
    /\ send_batch("room", hub_batch)
    /\ hub_batch' = <<>>
    /\ UNCHANGED <<store, cache, room_state, broadcast_queue, ws, countdown,
                   http_admin, req, now, ended_rooms, orphan_hub, replies, calls, joins>>

\* close_room deletes the connections and the room state of the code and
\* leaves its queue and its worker; connect then puts the queue of a new room
\* in the place of that queue.  The worker keeps running on the old queue
\* and sends what it still holds to the connections the code has now.  One
\* such worker is followed, and only while it holds an event.
LeftBehind ==
    IF broadcast_queue # <<>> /\ (broadcast_queue[1] # <<>> \/ hub_batch # <<>>)
    THEN <<[queue |-> broadcast_queue[1], batch |-> hub_batch]>>
    ELSE orphan_hub

\* await manager.connect(websocket, quiz_code), the worker left behind followed
HubConnect(s) == connect(s, LeftBehind)

StillHolding(queue, batch) ==
    IF queue = <<>> /\ batch = <<>> THEN <<>> ELSE <<[queue |-> queue, batch |-> batch]>>

\* _broadcast_worker of a replaced queue: queue.get() returns an event
OrphanGet(elapsed) ==
    /\ orphan_hub # <<>>
    /\ orphan_hub[1].queue # <<>>
    /\ LET message == Head(orphan_hub[1].queue)
           batch == Append(orphan_hub[1].batch, message)
       IN IF FlushNow(batch, message, elapsed)
          THEN /\ send_batch("left", batch)
               /\ orphan_hub' = StillHolding(Tail(orphan_hub[1].queue), <<>>)
          ELSE /\ orphan_hub' = StillHolding(Tail(orphan_hub[1].queue), batch)
               /\ UNCHANGED <<active_connections, last_frame, heard>>
    /\ UNCHANGED <<store, cache, room_state, broadcast_queue, ws, countdown,
                   http_admin, req, now, ended_rooms, hub_batch, replies, calls, joins>>

\* _broadcast_worker of a replaced queue: queue.get() times out
OrphanTimeout ==
    /\ orphan_hub # <<>>
    /\ orphan_hub[1].queue = <<>>
    /\ orphan_hub[1].batch # <<>>
    /\ send_batch("left", orphan_hub[1].batch)
    /\ orphan_hub' = <<>>
    /\ UNCHANGED <<store, cache, room_state, broadcast_queue, ws, countdown,
                   http_admin, req, now, ended_rooms, hub_batch, replies, calls, joins>>

\* ------------------------------------------------------------------- Init
NewQuiz == [status |-> "active", participantCount |-> 0]

\* the server after construction, with a quiz in the store
Constructed ==
    /\ db_quiz = <<NewQuiz>>
    /\ db_questions \in QuizChoices
    /\ db_participants = [p \in Pids |-> <<>>]
    /\ used_pids = {}
    /\ mem_quiz = <<>>
    /\ mem_questions = <<>>
    /\ active_connections = <<>>
    /\ room_state = <<>>
    /\ broadcast_queue = <<>>
    /\ ws = [s \in Sockets |-> NoHandler]
    /\ countdown = [t \in Tasks |-> NoTask]
    /\ http_admin = NoAdminRequest
    /\ req = [r \in Requests |-> NoRequest]
    /\ now = 1
    /\ ended_rooms = FALSE
    /\ hub_batch = <<>>
    /\ orphan_hub = <<>>
    /\ last_frame = <<>>
    /\ heard = {}
    /\ state_reply = <<>>
    /\ sync_reply = <<>>
    /\ questions_reply = <<>>
    /\ db_avatar = [p \in Pids |-> <<>>]
    /\ join_req = [j \in Joins |-> NoJoin]

Init ==
    /\ Constructed
    /\ points_call = <<>>
    /\ leaderboard_call = <<>>

\* the clients of the lifecycle and the admin specifications: one sends the
\* admin frames, the other connects, auto-submits and leaves
RoomClients == {"s1", "s2"}
AdminClients == {"s1"}
PlayerClients == {"s2"}

\* the room lifecycle: sockets, admin commands, countdown, end of the quiz
NextLife ==
    \/ \E s \in RoomClients : WsOpen(s)
    \/ \E s \in RoomClients : WsConnect(s)
    \/ \E s \in RoomClients : ClientClose(s)
    \/ \E s \in RoomClients : WsDisconnect(s)
    \/ \E s \in AdminClients : AdminJoined(s)
    \/ \E s \in RoomClients : AdminJoinedQuestions(s)
    \/ \E s \in RoomClients : AdminJoinedParticipants(s)
    \/ \E s \in RoomClients : QuizStarting(s, "t1")
    \/ \E s \in RoomClients : ShowAnswer(s)
    \/ \E s \in RoomClients : ShowLeaderboard(s)
    \/ \E s \in RoomClients : NextQuestion(s)
    \/ \E s \in RoomClients : NextQuestionSet(s)
    \/ \E t \in Tasks : StartQuizLoad(t)
    \/ \E t \in Tasks : StartQuizTick(t)
    \/ \E t \in Tasks : StartQuizFinish(t)
    \/ UpdateQuizStatus("ended")
    \/ UpdateQuizStatusEnded
    \/ close_room
    \/ BroadcastWorker

SpecLife == Init /\ [][NextLife]_vars

\* the admin commands while the quiz is played: sockets, admin commands,
\* countdown and auto-submitting players; the quiz is not ended
NextAdmin ==
    \/ \E s \in RoomClients : WsOpen(s)
    \/ \E s \in RoomClients : WsConnect(s)
    \/ \E s \in RoomClients : ClientClose(s)
    \/ \E s \in RoomClients : WsDisconnect(s)
    \/ \E s \in AdminClients : AdminJoined(s)
    \/ \E s \in RoomClients : AdminJoinedQuestions(s)
    \/ \E s \in RoomClients : AdminJoinedParticipants(s)
    \/ \E s \in RoomClients : QuizStarting(s, "t1")
    \/ \E s \in RoomClients : ShowAnswer(s)
    \/ \E s \in RoomClients : ShowLeaderboard(s)
    \/ \E s \in RoomClients : NextQuestion(s)
    \/ \E s \in RoomClients : NextQuestionSet(s)
    \/ \E s \in PlayerClients : AutoSubmit(s, "p1")
    \/ \E t \in Tasks : StartQuizLoad(t)
    \/ \E t \in Tasks : StartQuizTick(t)
    \/ \E t \in Tasks : StartQuizFinish(t)
    \/ BroadcastWorker

SpecAdmin == Init /\ [][NextAdmin]_vars

\* the answering specification: a participant joins over HTTP and submits,
\* twice in a row or twice at once; one socket connects, announces itself as
\* the participant, auto-submits and leaves
AnswerClients == {"s1"}
Submitters == {"p1"}

NextAnswer ==
    \/ \E s \in AnswerClients : WsOpen(s)
    \/ \E s \in AnswerClients : WsConnect(s)
    \/ \E s \in AnswerClients : ClientClose(s)
    \/ \E s \in AnswerClients : WsDisconnect(s)
    \/ \E s \in AnswerClients, p \in Submitters : ParticipantJoined(s, p)
    \/ \E s \in AnswerClients : ParticipantJoinedSync(s)
    \/ \E s \in AnswerClients, p \in Submitters : AutoSubmit(s, p)
    \/ \E p \in Submitters : JoinQuiz(p)
    \/ \E r \in Requests, p \in Submitters, a \in Submissions, tt \in SubmitTimes :
          SubmitAnswer(r, p, a[1], a[2], tt)
    \/ \E r \in Requests : SubmitFetch(r)
    \/ \E r \in Requests : SubmitPersist(r)
    \/ \E r \in Requests : SubmitMark(r)
    \/ BroadcastWorker

SpecAnswer == Init /\ [][NextAnswer]_vars

\* the start of the quiz: an admin socket sends quiz_starting, once or again
\* while a countdown is running; every frame creates a task of its own
NextStart ==
    \/ \E s \in AdminClients : WsOpen(s)
    \/ \E s \in AdminClients : WsConnect(s)
    \/ \E s \in AdminClients : AdminJoined(s)
    \/ \E s \in AdminClients : AdminJoinedQuestions(s)
    \/ \E s \in AdminClients : AdminJoinedParticipants(s)
    \/ \E s \in AdminClients, t \in Tasks : QuizStarting(s, t)
    \/ \E t \in Tasks : StartQuizLoad(t)
    \/ \E t \in Tasks : StartQuizTick(t)
    \/ \E t \in Tasks : StartQuizFinish(t)
    \/ BroadcastWorker

SpecStart == Init /\ [][NextStart]_vars

\* the same with the scheduling of the event loop: a countdown task whose
\* sleep is over is resumed, and so is the broadcast worker when the queue
\* holds an event.  The queue of the code is unbounded and a put never
\* waits; a step that is held back here for want of room on the bounded
\* queue is taken once the worker has made room, hence strong fairness for
\* the steps of the task.
SpecStartFair ==
    /\ Init /\ [][NextStart]_vars
    /\ WF_vars(BroadcastWorker)
    /\ \A t \in Tasks : SF_vars(StartQuizLoad(t))
    /\ \A t \in Tasks : SF_vars(StartQuizTick(t))
    /\ \A t \in Tasks : SF_vars(StartQuizFinish(t))

\* the hub: sockets come and go, one auto-submits, an admin reveals the
\* answer, the quiz is ended over HTTP; the workers batch and send
NextHub ==
    \/ \E s \in RoomClients : WsOpen(s)
    \/ \E s \in RoomClients : HubConnect(s)
    \/ \E s \in RoomClients : WsDisconnect(s)
    \/ \E s \in AdminClients : AdminJoined(s)
    \/ \E s \in AdminClients : AdminJoinedQuestions(s)
    \/ \E s \in AdminClients : AdminJoinedParticipants(s)
    \/ \E s \in AdminClients : ShowAnswer(s)
    \/ \E s \in PlayerClients : AutoSubmit(s, "p1")
    \/ UpdateQuizStatus("ended")
    \/ UpdateQuizStatusEnded
    \/ close_room
    \/ \E elapsed \in BOOLEAN : WorkerGet(elapsed)
    \/ WorkerTimeout
    \/ \E elapsed \in BOOLEAN : OrphanGet(elapsed)
    \/ OrphanTimeout

SpecHub == Init /\ [][NextHub]_vars

\* identification: two sockets connect, either announces itself as admin or
\* as the participant who joined over HTTP; an admin socket reveals the
\* answer and kicks the participant
NextIdentify ==
    \/ \E s \in RoomClients : WsOpen(s)
    \/ \E s \in RoomClients : WsConnect(s)
    \/ \E s \in RoomClients : ClientClose(s)
    \/ \E s \in RoomClients : WsDisconnect(s)
    \/ \E s \in RoomClients : AdminJoined(s)
    \/ \E s \in RoomClients : AdminJoinedQuestions(s)
    \/ \E s \in RoomClients : AdminJoinedParticipants(s)
    \/ \E s \in RoomClients, p \in Submitters : ParticipantJoined(s, p)
    \/ \E s \in RoomClients : ParticipantJoinedSync(s)
    \/ \E s \in RoomClients : ShowAnswer(s)
    \/ \E s \in RoomClients, p \in Submitters : KickPlayer(s, p)
    \/ \E s \in RoomClients : KickPlayerRemove(s)
    \/ \E p \in Submitters : JoinQuiz(p)
    \/ BroadcastWorker

SpecIdentify == Init /\ [][NextIdentify]_vars

\* the kick: a participant joins over HTTP and submits; an admin socket kicks
\* the participant before, while or after the submissions are handled
NextKick ==
    \/ \E s \in AdminClients : WsOpen(s)
    \/ \E s \in AdminClients : WsConnect(s)
    \/ \E s \in AdminClients : AdminJoined(s)
    \/ \E s \in AdminClients : AdminJoinedQuestions(s)
    \/ \E s \in AdminClients : AdminJoinedParticipants(s)
    \/ \E s \in AdminClients, p \in Submitters : KickPlayer(s, p)
    \/ \E s \in AdminClients : KickPlayerRemove(s)
    \/ \E p \in Submitters : JoinQuiz(p)
    \/ \E r \in Requests, p \in Submitters, a \in Submissions, tt \in SubmitTimes :
          SubmitAnswer(r, p, a[1], a[2], tt)
    \/ \E r \in Requests : SubmitFetch(r)
    \/ \E r \in Requests : SubmitPersist(r)
    \/ \E r \in Requests : SubmitMark(r)
    \/ BroadcastWorker

SpecKick == Init /\ [][NextKick]_vars

\* ------------------------------------------------------------ state sync
\* ConnectionManager._calculate_time_remaining, times in milliseconds
calculate_time_remaining(rs, current_time) ==
    IF rs = <<>> THEN 0
    ELSE IF rs[1].quiz_state # QUESTION THEN 0
    ELSE IF rs[1].question_start_time \in {NoTime, 0} THEN 0
    ELSE LET left == rs[1].current_time_limit * 1000
                         - (current_time - rs[1].question_start_time)
         IN IF left <= 0 THEN 0 ELSE left \div 1000

\* ConnectionManager.get_room_state: the dict for a room, and the dict for a
\* code that has none (which has no time_limit)
get_room_state(rs, server_time) ==
    IF rs # <<>>
    THEN [quiz_state |-> rs[1].quiz_state,
          current_question |-> rs[1].current_question,
          total_questions |-> rs[1].total_questions,
          show_answers |-> rs[1].show_answers,
          server_time |-> server_time,
          question_start_time |-> rs[1].question_start_time,
          time_limit |-> rs[1].current_time_limit,
          time_remaining |-> calculate_time_remaining(rs, server_time),
          answered_count |-> Cardinality(rs[1].answered),
          total_participants |-> Cardinality(rs[1].participants)]
    ELSE [quiz_state |-> LOBBY, current_question |-> 0, total_questions |-> 0,
          show_answers |-> FALSE, server_time |-> server_time,
          question_start_time |-> 0, time_remaining |-> 0,
          answered_count |-> 0, total_participants |-> 0]

\* get_quiz_state: room_state["participant"] and ["participant_score"]
with_participant(state, participant) ==
    [k \in DOMAIN state \cup {"participant", "participant_score"} |->
        IF k = "participant" THEN participant
        ELSE IF k = "participant_score" THEN participant.score
        ELSE state[k]]

\* GET /api/quiz/{code}/state, up to the await of the participant lookup;
\* without participantId the dict of get_room_state is the reply.  One such
\* request is handled at a time.
GetQuizState(participantId) ==
    /\ IF state_reply = <<>> THEN TRUE ELSE state_reply[1].pending = <<>>
    /\ ReadClock
    /\ state_reply' = <<[room |-> room_state, pending |-> participantId,
                         payload |-> get_room_state(room_state, now' * 1000)]>>
    /\ UNCHANGED <<store, cache, mgr, ws, countdown, http_admin, req, ended_rooms,
                   hub, sync_reply, questions_reply, calls, joins>>

\* get_quiz_state after find_one: a participant that was found is added
GetQuizStateParticipant ==
    /\ state_reply # <<>>
    /\ state_reply[1].pending # <<>>
    /\ LET participant == db_participants[state_reply[1].pending[1]]
       IN state_reply' =
            <<[state_reply[1] EXCEPT
                 !.pending = <<>>,
                 !.payload = IF participant # <<>>
                             THEN with_participant(@, participant[1]) ELSE @]>>
    /\ UNCHANGED <<store, cache, mgr, ws, countdown, http_admin, req, now, ended_rooms,
                   hub, sync_reply, questions_reply, calls, joins>>

\* the question without its correctAnswer
strip_answer(q) == [k \in DOMAIN q \ {"correctAnswer"} |-> q[k]]

\* request_state_sync: current_question_data
current_question_data(questions, current_idx, is_admin) ==
    IF current_idx < Len(questions)
    THEN IF is_admin THEN <<questions[current_idx + 1]>>
         ELSE <<strip_answer(questions[current_idx + 1])>>
    ELSE <<>>

\* request_state_sync: sync_msg, built from the dict of get_room_state
sync_msg(state, data) ==
    LET hints == IF state.quiz_state \in {LEADERBOARD, FINAL_LEADERBOARD}
                 THEN {"redirect_leaderboard", "is_final"}
                 ELSE IF state.quiz_state = PODIUM THEN {"redirect_podium"}
                 ELSE {}
    IN [k \in DOMAIN state \cup hints \cup
               {"type", "question_number", "current_question_data", "question"} |->
          IF k = "type" THEN "sync_state"
          ELSE IF k = "question_number" THEN state.current_question + 1
          ELSE IF k \in {"current_question_data", "question"} THEN data
          ELSE IF k \in {"redirect_leaderboard", "redirect_podium"} THEN TRUE
          ELSE IF k = "is_final" THEN state.quiz_state = FINAL_LEADERBOARD
          ELSE state[k]]

\* frame request_state_sync: get_room_state; in QUESTION and ANSWER_REVEAL
\* the questions are awaited, else the reply is sent at once
RequestStateSync(s) ==
    /\ Receiving(s)
    /\ ReadClock
    /\ LET state == get_room_state(room_state, now' * 1000)
       IN IF state.quiz_state \in {QUESTION, ANSWER_REVEAL}
          THEN /\ ws' = [ws EXCEPT ![s].pc = "sync_questions",
                                   ![s].sync = <<[room |-> room_state, state |-> state]>>]
               /\ UNCHANGED sync_reply
          ELSE /\ sync_reply' = <<[to |-> s, admin |-> ws[s].is_admin,
                                   room |-> room_state,
                                   payload |-> sync_msg(state, <<>>)]>>
               /\ UNCHANGED ws
    /\ UNCHANGED <<store, cache, mgr, countdown, http_admin, req, ended_rooms,
                   hub, state_reply, questions_reply, calls, joins>>

\* request_state_sync after get_questions_with_cache: the reply is sent (a
\* send on a closed transport raises: disconnect)
RequestStateSyncSend(s) ==
    /\ ws[s].pc = "sync_questions"
    /\ \E hit \in CacheHits(mem_questions) :
         /\ mem_questions' = QuestionsCacheAfterRead(hit)
         /\ IF ws[s].st = "closed"
            THEN /\ active_connections' = disconnect_conns(active_connections, s)
                 /\ room_state' = disconnect_room(active_connections, room_state, s,
                                                  ws[s].user_id)
                 /\ broadcast_queue' = disconnect_queue(active_connections,
                                                        broadcast_queue, s)
                 /\ hub_batch' = disconnect_batch(active_connections, hub_batch, s)
                 /\ heard' = heard \ {s}
                 /\ ws' = [ws EXCEPT ![s] = NoHandler]
                 /\ UNCHANGED sync_reply
            ELSE /\ LET snap == ws[s].sync[1]
                        data == current_question_data(QuestionsRead(hit),
                                    snap.state.current_question, ws[s].is_admin)
                    IN sync_reply' = <<[to |-> s, admin |-> ws[s].is_admin,
                                        room |-> snap.room,
                                        payload |-> sync_msg(snap.state, data)]>>
                 /\ ws' = [ws EXCEPT ![s].pc = "recv", ![s].sync = <<>>]
                 /\ UNCHANGED <<active_connections, room_state, broadcast_queue,
                                hub_batch, heard>>
    /\ UNCHANGED <<store, mem_quiz, countdown, http_admin, req, now, ended_rooms,
                   orphan_hub, last_frame, state_reply, questions_reply, calls, joins>>

\* recovery after a return from the background: an admin steps through the
\* quiz with show_answer, show_leaderboard and next_question, a client asks
\* for the state over HTTP and over the socket
NextSync ==
    \/ \E s \in AdminClients : WsOpen(s)
    \/ \E s \in AdminClients : WsConnect(s)
    \/ \E s \in AdminClients : AdminJoined(s)
    \/ \E s \in AdminClients : AdminJoinedQuestions(s)
    \/ \E s \in AdminClients : AdminJoinedParticipants(s)
    \/ \E s \in AdminClients : ShowAnswer(s)
    \/ \E s \in AdminClients : ShowLeaderboard(s)
    \/ \E s \in AdminClients : NextQuestion(s)
    \/ \E s \in AdminClients : NextQuestionSet(s)
    \/ \E p \in Submitters : JoinQuiz(p)
    \/ \E participantId \in {<<>>} \cup {<<p>> : p \in Submitters} :
          GetQuizState(participantId)
    \/ GetQuizStateParticipant
    \/ \E s \in AdminClients : RequestStateSync(s)
    \/ \E s \in AdminClients : RequestStateSyncSend(s)
    \/ BroadcastWorker

SpecSync == Init /\ [][NextSync]_vars

\* ------------------------------------------------------ questions endpoint
\* the clients that hold an administrator bearer token (POST /api/admin/login)
TokenHolders == AdminClients

\* the values a caller puts into the participantId query parameter
ParticipantIdValues == Submitters \cup {"admin"}

QuestionsReply(pc, participantId, with_token, status, questions) ==
    [pc |-> pc, participantId |-> participantId, with_token |-> with_token,
     status |-> status, questions |-> questions]

\* GET /api/quiz/{code}/questions?participantId=..., by a caller with or
\* without an administrator token (the endpoint reads no credentials): 404
\* without quiz, 400 on an ended quiz.  One such request is handled at a time.
GetQuizQuestions(participantId, with_token) ==
    /\ IF questions_reply = <<>> THEN TRUE ELSE questions_reply[1].pc = "done"
    /\ \E hit \in CacheHits(mem_quiz) :
         /\ mem_quiz' = QuizCacheAfterRead(hit)
         /\ LET quiz == QuizRead(hit)
                status == IF quiz = <<>> THEN 404
                          ELSE IF quiz[1].status = "ended" THEN 400 ELSE 0
            IN questions_reply' =
                 <<QuestionsReply(IF status # 0 THEN "done"
                                  ELSE IF participantId # "admin" THEN "verify"
                                  ELSE "questions",
                                  participantId, with_token, status, <<>>)>>
    /\ UNCHANGED <<store, mem_questions, mgr, ws, countdown, http_admin, req, now,
                   ended_rooms, hub, state_reply, sync_reply, calls, joins>>

\* get_quiz_questions, participantId != "admin": verify_participant, 403 if
\* there is no such participant
GetQuizQuestionsVerify ==
    /\ questions_reply # <<>>
    /\ questions_reply[1].pc = "verify"
    /\ questions_reply' =
         <<IF db_participants[questions_reply[1].participantId] = <<>>
           THEN [questions_reply[1] EXCEPT !.pc = "done", !.status = 403]
           ELSE [questions_reply[1] EXCEPT !.pc = "questions"]>>
    /\ UNCHANGED <<store, cache, mgr, ws, countdown, http_admin, req, now,
                   ended_rooms, hub, state_reply, sync_reply, calls, joins>>

\* get_quiz_questions: the questions through the cache, correctAnswer removed
\* unless participantId is "admin"
GetQuizQuestionsReturn ==
    /\ questions_reply # <<>>
    /\ questions_reply[1].pc = "questions"
    /\ \E hit \in CacheHits(mem_questions) :
         /\ mem_questions' = QuestionsCacheAfterRead(hit)
         /\ LET questions == QuestionsRead(hit)
            IN questions_reply' =
                 <<[questions_reply[1] EXCEPT
                      !.pc = "done", !.status = 200,
                      !.questions =
                         IF questions_reply[1].participantId # "admin"
                         THEN [i \in DOMAIN questions |-> strip_answer(questions[i])]
                         ELSE questions]>>
    /\ UNCHANGED <<store, mem_quiz, mgr, ws, countdown, http_admin, req, now,
                   ended_rooms, hub, state_reply, sync_reply, calls, joins>>

\* callers with and without an administrator token fetch the questions and
\* ask for the state of a room that an admin has put into a question
NextQuestions ==
    \/ \E s \in RoomClients : WsOpen(s)
    \/ \E s \in RoomClients : WsConnect(s)
    \/ \E s \in RoomClients : AdminJoined(s)
    \/ \E s \in RoomClients : AdminJoinedQuestions(s)
    \/ \E s \in RoomClients : AdminJoinedParticipants(s)
    \/ \E s \in TokenHolders : NextQuestion(s)
    \/ \E s \in TokenHolders : NextQuestionSet(s)
    \/ \E s \in RoomClients : RequestStateSync(s)
    \/ \E s \in RoomClients : RequestStateSyncSend(s)
    \/ \E p \in Submitters : JoinQuiz(p)
    \/ \E participantId \in ParticipantIdValues, with_token \in BOOLEAN :
          GetQuizQuestions(participantId, with_token)
    \/ GetQuizQuestionsVerify
    \/ GetQuizQuestionsReturn
    \/ BroadcastWorker

SpecQuestions == Init /\ [][NextQuestions]_vars

\* admin frames from both kinds of socket: one socket sends admin_joined, the
\* other does not and sends every tag.  The countdown task that
\* quiz_starting creates is not run.
NextDrop ==
    \/ \E s \in RoomClients : WsOpen(s)
    \/ \E s \in RoomClients : WsConnect(s)
    \/ \E s \in AdminClients : AdminJoined(s)
    \/ \E s \in AdminClients : AdminJoinedQuestions(s)
    \/ \E s \in AdminClients : AdminJoinedParticipants(s)
    \/ \E p \in Submitters : JoinQuiz(p)
    \/ \E s \in PlayerClients, tag \in FrameTags : DroppedFrame(s, tag)
    \/ \E s \in RoomClients : QuizStarting(s, "t1")
    \/ \E s \in RoomClients : ShowAnswer(s)
    \/ \E s \in RoomClients : ShowLeaderboard(s)
    \/ \E s \in RoomClients : NextQuestion(s)
    \/ \E s \in RoomClients : NextQuestionSet(s)
    \/ \E s \in RoomClients, p \in Submitters : KickPlayer(s, p)
    \/ \E s \in RoomClients : KickPlayerRemove(s)
    \/ BroadcastWorker

SpecDrop == Init /\ [][NextDrop]_vars

\* ----------------------------------------------------------- scoring engine
\* the points settings, time limits (seconds) and elapsed times (tenths of a
\* second) of the calls of calc_points_v2
PointsSettings ==
    {IntPoints(0), IntPoints(1), IntPoints(7), IntPoints(100)}
        \cup {StrPoints(s) : s \in {"standard", "double", "noPoints", "triple"}}
TimeLimits == {0, 1, 30}
TimesTaken == {0, 2, 3, 10, 150, 300, 301}

\* the prior answer histories, by the isCorrect of their records
Histories ==
    UNION {[1..n -> {[isCorrect |-> TRUE], [isCorrect |-> FALSE]}] : n \in 0..MaxHistory}

PointsCalls ==
    [question : {[timeLimit |-> tl, correctAnswer |-> 1, points |-> cfg] :
                    tl \in TimeLimits, cfg \in PointsSettings},
     correct : BOOLEAN,
     time_taken : TimesTaken,
     previous_answers : Histories,
     answer_position : 0..MaxPosition,
     result : {<<>>}]

\* the engine is called with any of the arguments above
InitScore ==
    /\ Constructed
    /\ points_call \in {<<call>> : call \in PointsCalls}
    /\ leaderboard_call = <<>>

\* calc_points_v2 returns
CalcPoints ==
    /\ points_call # <<>>
    /\ points_call[1].result = <<>>
    /\ LET call == points_call[1]
       IN points_call' =
            <<[call EXCEPT !.result =
                 <<calc_points_v2(call.question, call.correct, call.time_taken,
                                  call.previous_answers, call.answer_position)>>]>>
    /\ UNCHANGED <<store, cache, mgr, ws, countdown, http_admin, req, now, ended_rooms,
                   hub, replies, leaderboard_call, joins>>

NextScore == CalcPoints

SpecScore == InitScore /\ [][NextScore]_vars

\* -------------------------------------------------------------- leaderboard
\* the totalTime values of the documents, in thousandths of a second, and
\* what round(totalTime, 2) makes of them, in hundredths: Python rounds the
\* binary value, so 0.005 goes up to 0.01 and 0.015 goes down to 0.01
RawTimes == {4, 5, 6, 14, 15, 16}
round2(total_time) ==
    CASE total_time = 4 -> 0
      [] total_time = 5 -> 1
      [] total_time = 6 -> 1
      [] total_time = 14 -> 1
      [] total_time = 15 -> 1
      [] total_time = 16 -> 2

BoardScores == {0, 100}

\* the participant documents of a quiz, in insertion order
BoardDocs ==
    UNION {[1..n -> [score : BoardScores, totalTime : RawTimes]] : n \in 0..MaxBoard}

\* find(...).sort([("score", -1), ("totalTime", 1)]): the orders the store
\* may return the documents in, as sequences of positions in docs
SortedOrders(docs) ==
    {order \in [1..Len(docs) -> 1..Len(docs)] :
        /\ \A i, j \in 1..Len(docs) : i # j => order[i] # order[j]
        /\ \A i, j \in 1..Len(docs) :
              i < j => \/ docs[order[i]].score > docs[order[j]].score
                       \/ /\ docs[order[i]].score = docs[order[j]].score
                          /\ docs[order[i]].totalTime <= docs[order[j]].totalTime}

\* calc_leaderboard with rank = prev_rank + 1 for an entry that is not tied
RECURSIVE rank_dense(_, _)
rank_dense(parts, idx) ==
    IF idx = 1 THEN 1
    ELSE IF /\ parts[idx].score = parts[idx - 1].score
            /\ round2(parts[idx].totalTime) = round2(parts[idx - 1].totalTime)
         THEN rank_dense(parts, idx - 1)
         ELSE rank_dense(parts, idx - 1) + 1

\* calc_leaderboard: the rank of the entry at position idx (from 1) of the
\* sorted documents: prev_rank if score and rounded totalTime are those of
\* the entry before, else the position
RECURSIVE rank_of(_, _)
rank_of(parts, idx) ==
    IF idx = 1 THEN 1
    ELSE IF /\ parts[idx].score = parts[idx - 1].score
            /\ round2(parts[idx].totalTime) = round2(parts[idx - 1].totalTime)
         THEN rank_of(parts, idx - 1)
         ELSE idx

\* calc_leaderboard: the result for documents docs returned in order order
leaderboard_of(docs, order) ==
    LET parts == [i \in 1..Len(docs) |-> docs[order[i]]]
    IN [i \in 1..Len(docs) |->
          [participantId |-> order[i],
           score |-> parts[i].score,
           totalTime |-> round2(parts[i].totalTime),
           rank |-> rank_of(parts, i)]]

\* the leaderboard of any set of documents is asked for
InitBoard ==
    /\ Constructed
    /\ points_call = <<>>
    /\ leaderboard_call \in {<<[docs |-> docs, result |-> <<>>]>> : docs \in BoardDocs}

\* calc_leaderboard returns
CalcLeaderboard ==
    /\ leaderboard_call # <<>>
    /\ leaderboard_call[1].result = <<>>
    /\ \E order \in SortedOrders(leaderboard_call[1].docs) :
         leaderboard_call' =
            <<[leaderboard_call[1] EXCEPT
                 !.result = <<leaderboard_of(leaderboard_call[1].docs, order)>>]>>
    /\ UNCHANGED <<store, cache, mgr, ws, countdown, http_admin, req, now, ended_rooms,
                   hub, replies, points_call, joins>>

NextBoard == CalcLeaderboard

SpecBoard == InitBoard /\ [][NextBoard]_vars

\* a submit-answer that arrives when no other is being handled
SubmitAnswerAlone(r, p, i, o, tt) ==
    /\ \A other \in Requests : req[other].pc = "idle"
    /\ SubmitAnswer(r, p, i, o, tt)

\* submissions late in the quiz: the admin steps to the podium or the quiz is
\* ended over HTTP while a participant submits, one request at a time
NextSoft ==
    \/ \E s \in AdminClients : WsOpen(s)
    \/ \E s \in AdminClients : WsConnect(s)
    \/ \E s \in AdminClients : AdminJoined(s)
    \/ \E s \in AdminClients : AdminJoinedQuestions(s)
    \/ \E s \in AdminClients : AdminJoinedParticipants(s)
    \/ \E s \in AdminClients : NextQuestion(s)
    \/ \E s \in AdminClients : NextQuestionSet(s)
    \/ UpdateQuizStatus("ended")
    \/ UpdateQuizStatusEnded
    \/ close_room
    \/ \E p \in Submitters : JoinQuiz(p)
    \/ \E r \in Requests, p \in Submitters, tt \in SubmitTimes :
          SubmitAnswerAlone(r, p, 0, 1, tt)
    \/ \E r \in Requests : SubmitFetch(r)
    \/ \E r \in Requests : SubmitPersist(r)
    \/ \E r \in Requests : SubmitMark(r)
    \/ BroadcastWorker

SpecSoft == Init /\ [][NextSoft]_vars

\* the cache under status changes: sockets are opened and the questions are
\* fetched, both reading the quiz through the cache, while the administrator
\* changes the status of the quiz
StatusValues == {"active", "inactive", "ended"}

NextCache ==
    \/ \E s \in AdminClients : WsOpen(s)
    \/ \E s \in AdminClients : WsConnect(s)
    \/ \E s \in AdminClients : ClientClose(s)
    \/ \E s \in AdminClients : WsDisconnect(s)
    \/ \E status \in StatusValues : UpdateQuizStatus(status)
    \/ UpdateQuizStatusEnded
    \/ close_room
    \/ \E p \in Submitters : JoinQuiz(p)
    \/ \E participantId \in ParticipantIdValues, with_token \in BOOLEAN :
          GetQuizQuestions(participantId, with_token)
    \/ GetQuizQuestionsVerify
    \/ GetQuizQuestionsReturn
    \/ BroadcastWorker

SpecCache == Init /\ [][NextCache]_vars

\* joining: requests with and without a client-supplied avatarSeed, an
\* administrator who kicks
NextJoin ==
    \/ \E j \in Joins, p \in Pids, seed \in ClientSeeds : JoinQuizAvatar(j, p, seed)
    \/ \E j \in Joins : JoinQuizInsert(j)
    \/ \E p \in Pids : JoinQuiz(p)
    \/ \E s \in AdminClients : WsOpen(s)
    \/ \E s \in AdminClients : WsConnect(s)
    \/ \E s \in AdminClients : AdminJoined(s)
    \/ \E s \in AdminClients : AdminJoinedQuestions(s)
    \/ \E s \in AdminClients : AdminJoinedParticipants(s)
    \/ \E s \in AdminClients, p \in Pids : KickPlayer(s, p)
    \/ \E s \in AdminClients : KickPlayerRemove(s)
    \/ BroadcastWorker

SpecJoin == Init /\ [][NextJoin]_vars

\* commands that fail: sockets connect and leave, announce themselves as
\* admin while the store answers or raises, and send admin commands
NextRaise ==
    \/ \E s \in RoomClients : WsOpen(s)
    \/ \E s \in RoomClients : WsConnect(s)
    \/ \E s \in RoomClients : ClientClose(s)
    \/ \E s \in RoomClients : WsDisconnect(s)
    \/ \E s \in RoomClients : AdminJoined(s)
    \/ \E s \in RoomClients : AdminJoinedQuestions(s)
    \/ \E s \in RoomClients : AdminJoinedRaise(s)
    \/ \E s \in RoomClients : AdminJoinedParticipants(s)
    \/ \E s \in RoomClients : ShowAnswer(s)
    \/ \E s \in RoomClients : ShowLeaderboard(s)
    \/ BroadcastWorker

SpecRaise == Init /\ [][NextRaise]_vars

\* reactions: two sockets connect, either announces itself as admin or as a
\* participant (both may be the same participant) and sends reactions
NextReact ==
    \/ \E s \in RoomClients : WsOpen(s)
    \/ \E s \in RoomClients : WsConnect(s)
    \/ \E s \in RoomClients : ClientClose(s)
    \/ \E s \in RoomClients : WsDisconnect(s)
    \/ \E s \in AdminClients : AdminJoined(s)
    \/ \E s \in AdminClients : AdminJoinedQuestions(s)
    \/ \E s \in AdminClients : AdminJoinedParticipants(s)
    \/ \E s \in RoomClients, p \in Submitters : ParticipantJoined(s, p)
    \/ \E s \in RoomClients : ParticipantJoinedSync(s)
    \/ \E p \in Submitters : JoinQuiz(p)
    \/ \E s \in RoomClients, emoji \in Emojis : Reaction(s, emoji)
    \/ BroadcastWorker

SpecReact == Init /\ [][NextReact]_vars

\* two participants answer the same question at the same time: both join
\* over HTTP, a socket keeps the room, each submits a correct answer to
\* question 0
NextRace ==
    \/ \E s \in AnswerClients : WsOpen(s)
    \/ \E s \in AnswerClients : WsConnect(s)
    \/ \E p \in Pids : JoinQuiz(p)
    \/ \E r \in Requests, p \in Pids, tt \in SubmitTimes : SubmitAnswer(r, p, 0, 1, tt)
    \/ \E r \in Requests : SubmitFetch(r)
    \/ \E r \in Requests : SubmitPersist(r)
    \/ \E r \in Requests : SubmitMark(r)
    \/ BroadcastWorker

SpecRace == Init /\ [][NextRace]_vars

\* the room at its cap: one socket more than the room admits, an admin among
\* them and a participant who identifies itself
NextCap ==
    \/ \E s \in Sockets : WsOpen(s)
    \/ \E s \in Sockets : WsConnect(s)
    \/ \E s \in Sockets : ClientClose(s)
    \/ \E s \in Sockets : WsDisconnect(s)
    \/ \E s \in AdminClients : AdminJoined(s)
    \/ \E s \in AdminClients : AdminJoinedQuestions(s)
    \/ \E s \in AdminClients : AdminJoinedParticipants(s)
    \/ \E s \in AdminClients : ShowAnswer(s)
    \/ \E s \in PlayerClients, p \in Submitters : ParticipantJoined(s, p)
    \/ \E s \in PlayerClients : ParticipantJoinedSync(s)
    \/ \E p \in Submitters : JoinQuiz(p)
    \/ BroadcastWorker

SpecCap == Init /\ [][NextCap]_vars

\* ================================================================ claims
Phase == Room.quiz_state
LastEvent == broadcast_queue[1][Len(broadcast_queue[1])]
HasEvent == broadcast_queue # <<>> /\ broadcast_queue[1] # <<>>
Deadline == Room.question_start_time + Room.current_time_limit * 1000
DeclaredTimeLimit(index) == db_questions[index + 1].timeLimit

\* C1: a submit-answer for (p, i) made after one for (p, i) has succeeded is
\* rejected (400) and stores nothing: no such submission reaches the point
\* where its update of the participant document has been issued
C1_DuplicateRejected ==
    \A r \in Requests : ~(req[r].after_success /\ req[r].pc = "mark")

\* C2: no participant's stored answers hold two records with the same
\* questionIndex
C2_NoTwoRecordsShareIndex ==
    \A p \in Pids :
        \A j, k \in 1..Len(StoredAnswers(p)) :
            j # k => StoredAnswers(p)[j].questionIndex # StoredAnswers(p)[k].questionIndex

RECURSIVE SumPoints(_)
SumPoints(answers) ==
    IF answers = <<>> THEN 0 ELSE Head(answers).points + SumPoints(Tail(answers))

\* C3: every stored participant's score is the sum of the points of the
\* records in that participant's answers, whatever submissions were accepted
C3_ScoreIsSumOfPoints ==
    \A p \in Pids :
        db_participants[p] # <<>> =>
            db_participants[p][1].score = SumPoints(db_participants[p][1].answers)

\* a duplicate was accepted: two records for the same question, both scored,
\* with different points, and the score is their sum
C3_Witness ==
    \E p \in Pids :
        /\ Len(StoredAnswers(p)) = 2
        /\ StoredAnswers(p)[1].questionIndex = StoredAnswers(p)[2].questionIndex
        /\ StoredAnswers(p)[1].points > 0
        /\ StoredAnswers(p)[2].points > StoredAnswers(p)[1].points
        /\ db_participants[p][1].score
             = StoredAnswers(p)[1].points + StoredAnswers(p)[2].points

\* C4: the answered set of a room is a subset of the ids in its participant
\* directory
C4_AnsweredAreParticipants ==
    HasRoom => Room.answered \subseteq Room.participants

LifecycleEdges ==
    {<<LOBBY, QUESTION>>, <<QUESTION, ANSWER_REVEAL>>, <<ANSWER_REVEAL, LEADERBOARD>>,
     <<ANSWER_REVEAL, FINAL_LEADERBOARD>>, <<LEADERBOARD, QUESTION>>,
     <<FINAL_LEADERBOARD, PODIUM>>, <<PODIUM, ENDED>>}
        \cup {<<ph, ENDED>> : ph \in QuizState}

C7_PhaseChangesFollowLifecycle ==
    [][(HasRoom /\ HasRoom' /\ Phase' # Phase) => <<Phase, Phase'>> \in LifecycleEdges]_vars

\* C8: once the quiz is marked ended and its room has been put into ENDED,
\* a room of the quiz code is in no other phase while the status stays ended
C8_EndedIsTerminal ==
    ended_rooms => (~HasRoom \/ Phase = ENDED)

\* C9: show_leaderboard selects FINAL_LEADERBOARD exactly on the last
\* question, broadcasts is_final accordingly and keeps current_question
C9_ShowLeaderboard ==
    [][\A s \in Sockets : ShowLeaderboard(s) =>
          /\ Phase' = IF Room.current_question >= Room.total_questions - 1
                      THEN FINAL_LEADERBOARD ELSE LEADERBOARD
          /\ Room'.current_question = Room.current_question
          /\ LastEvent'.type = "show_leaderboard"
          /\ LastEvent'.is_final = (Phase' = FINAL_LEADERBOARD)
          /\ LastEvent'.current_question = Room.current_question]_vars

\* the leaderboard after a question that is not the last one, announced as
\* not final
C9_Witness ==
    /\ HasRoom /\ Phase = LEADERBOARD
    /\ Room.total_questions = NumQuestions
    /\ Room.current_question < NumQuestions - 1
    /\ HasEvent /\ LastEvent.type = "show_leaderboard" /\ ~LastEvent.is_final

\* C10: next_question received with current_question + 1 < total_questions
\* sets, when it completes, the index to the received index + 1, the phase
\* to QUESTION, the answered set to empty and the question start to the
\* time of the change, and broadcasts next_question; received on the last
\* question it sets the phase to PODIUM, keeps the index and broadcasts
\* show_podium
C10_NextQuestion ==
    [][\A s \in Sockets :
          /\ NextQuestion(s) =>
               IF Room.current_question + 1 < Room.total_questions
               THEN /\ ws'[s].pc = "nq"
                    /\ ws'[s].next_q = Room.current_question + 1
                    /\ room_state' = room_state
               ELSE /\ Phase' = PODIUM
                    /\ Room'.current_question = Room.current_question
                    /\ LastEvent'.type = "show_podium"
                    /\ ws'[s].pc = "recv"
          /\ (NextQuestionSet(s) /\ HasRoom) =>
               /\ Room'.current_question = ws[s].next_q
               /\ Phase' = QUESTION
               /\ Room'.answered = {}
               /\ Room'.question_start_time = now' * 1000
               /\ LastEvent'.type = "next_question"
               /\ LastEvent'.current_question = ws[s].next_q]_vars

\* the second question is on screen with nobody marked as having answered,
\* announced by next_question
C10_Witness ==
    /\ HasRoom /\ Phase = QUESTION /\ Room.current_question = 1
    /\ Room.answered = {}
    /\ HasEvent /\ LastEvent.type = "next_question" /\ LastEvent.current_question = 1

\* another countdown of the room has broadcast its countdown_start and not yet
\* its quiz_starting
OtherCountdown(t) ==
    \E u \in Tasks \ {t} : countdown[u].pc \in {"tick", "final"}

\* C11: a quiz_starting command on a quiz with questions emits
\* countdown_start{5}, then countdown_tick 4, 3, 2, 1, then quiz_starting;
\* none of these is emitted while another countdown of the room is between
\* its countdown_start and its quiz_starting, and the phase changes only at
\* the last step, to QUESTION with current_question 0
C11_CountdownInOrder ==
    [][\A t \in Tasks :
          /\ (StartQuizLoad(t) /\ countdown'[t].pc = "tick") =>
               /\ LastEvent' = Msg("countdown_start", 0, FALSE, CountdownFrom)
               /\ countdown'[t].i = CountdownFrom - 1
               /\ ~OtherCountdown(t)
               /\ Phase' = Phase
          /\ StartQuizTick(t) =>
               /\ LastEvent' = Msg("countdown_tick", 0, FALSE, countdown[t].i)
               /\ countdown[t].i \in 1..(CountdownFrom - 1)
               /\ countdown'[t].i = countdown[t].i - 1
               /\ ~OtherCountdown(t)
               /\ Phase' = Phase
          /\ StartQuizFinish(t) =>
               /\ countdown[t].i = 0
               /\ LastEvent'.type = "quiz_starting"
               /\ ~OtherCountdown(t)
               /\ Phase' = QUESTION
               /\ Room'.current_question = 0]_vars

\* C12: a socket receives the events of its room in the order in which they
\* were enqueued, each once.  A worker sends the events it took off its queue
\* in the order taken, each in one frame; what is left to go wrong is the
\* order between two queues of the code: a socket that has got an event
\* enqueued on the room's current queue is sent no event off the queue that
\* the current one replaced, all of whose events were enqueued earlier
C12_EnqueueOrderKept ==
    (last_frame # <<>> /\ last_frame[1].from = "left") =>
        last_frame[1].to \cap heard = {}

\* the event types the hub has to send at once and unbatched
MustFlush ==
    {"quiz_starting", "next_question", "show_answer", "show_leaderboard",
     "show_podium", "sync_state", "question_time_sync", "participant_kicked",
     "quiz_ended"}

HeldBack ==
    hub_batch \o (IF orphan_hub = <<>> THEN <<>> ELSE orphan_hub[1].batch)

\* C13: an event of one of the MustFlush types never waits in a worker's
\* batch for the batching window, and never travels in a batch frame
C13_CriticalSentAlone ==
    /\ \A i \in 1..Len(HeldBack) : HeldBack[i].type \notin MustFlush
    /\ (last_frame # <<>> /\ Len(last_frame[1].messages) > 1) =>
          \A i \in 1..Len(last_frame[1].messages) :
              last_frame[1].messages[i].type \notin MustFlush

\* the sockets whose identification as participant p has been processed and
\* that are still open
OpenSocketsOf(p) ==
    {s \in Sockets : ws[s].st = "open" /\ ws[s].pc = "recv" /\ ws[s].user_id = p}

\* C14: once a socket's participant_joined{participantId = p} has been
\* processed, an earlier socket identified as p has been closed (code 1000):
\* at most one open socket is identified as p
C14_OneOpenSocketPerParticipant ==
    \A p \in Pids : db_participants[p] # <<>> => Cardinality(OpenSocketsOf(p)) <= 1

\* C15: when kick_player{participantId = p} for an existing participant with
\* an open socket has been processed, p's document is deleted, participantCount is one less, p
\* is not in the room's participant directory, participant_kicked has been
\* enqueued and every socket identified as p has been closed with code 4001
C15_KickRemovesAndCloses ==
    [][\A s \in Sockets :
          (KickPlayerRemove(s) /\ OpenSocketsOf(ws[s].pid) # {}) =>
              LET p == ws[s].pid
              IN /\ db_participants'[p] = <<>>
                 /\ db_quiz'[1].participantCount = db_quiz[1].participantCount - 1
                 /\ HasRoom' => p \notin Room'.participants
                 /\ HasEvent' /\ LastEvent'.type = "participant_kicked"
                 /\ \A s2 \in OpenSocketsOf(p) :
                       ws'[s2].st = "closed" /\ ws'[s2].close_code = 4001]_vars

\* participant p joined and a kick_player for p has been processed
KickProcessed(p) ==
    /\ p \in used_pids
    /\ db_participants[p] = <<>>
    /\ \A s \in Sockets : ~(ws[s].pc = "kick" /\ ws[s].pid = p)

\* C16: once p has been kicked, a submit-answer from p is answered 403 and
\* changes nothing: it is not ended by the early validation (400, or 200
\* "ignored") and its lookups raise 403, whether or not p had answered the
\* current question and whether or not a submission of p was being handled
\* during the kick
C16_KickedSubmitGets403 ==
    \A p \in Pids :
        KickProcessed(p) =>
            /\ early_reply(room_state, p) = 0
            /\ \A hit \in CacheHits(mem_quiz), a \in Submissions :
                  lookup_reply(QuizRead(hit), db_participants[p], FindQuestion(a[1])) = 403

\* manager.connect returns for socket s in this step
ConnectReturns(s) == ws[s].pc = "connect" /\ ws'[s].pc = "recv"

\* the read loop of a socket that connect closed with 1013 ends in this step
RejectedLeaves(s) == ws[s].close_code = 1013 /\ ws'[s] = NoHandler

\* C17: the connection set of a room never holds more sockets than the cap;
\* a connect at the cap closes the new socket with 1013 and leaves the
\* connection set, the room (participants, phase) and the other sockets as
\* they are, and so does the end of the rejected socket's handler while the
\* room still holds a socket (the disconnect of any handler deletes a room
\* whose connection set the worker has emptied of dead sockets)
C17_RoomCapHolds ==
    /\ [](Cardinality(Conns) <= max_connections_per_room)
    /\ [][\A s \in Sockets :
            /\ (ConnectReturns(s) /\ Cardinality(Conns) >= max_connections_per_room) =>
                  /\ ws'[s].st = "closed"
                  /\ ws'[s].close_code = 1013
                  /\ s \notin Conns'
                  /\ UNCHANGED <<active_connections, room_state>>
                  /\ \A o \in Sockets \ {s} : ws'[o] = ws[o]
            /\ (RejectedLeaves(s) /\ Conns # {}) =>
                  /\ UNCHANGED <<active_connections, room_state>>
                  /\ \A o \in Sockets \ {s} : ws'[o] = ws[o]]_vars

\* a socket was closed with 1013 by a room that holds as many sockets as the
\* cap, an identified participant among them
C17_Witness ==
    /\ \E s \in Sockets : ws[s].close_code = 1013 /\ s \notin Conns
    /\ Cardinality(Conns) = max_connections_per_room
    /\ room_state # <<>> /\ room_state[1].participants # {}

\* the payload without server_time and time_remaining
ModuloTime(payload) ==
    [k \in DOMAIN payload \ {"server_time", "time_remaining"} |-> payload[k]]

\* two payloads have the same fields with the same values
SamePayload(a, b) == DOMAIN a = DOMAIN b /\ \A k \in DOMAIN a : a[k] = b[k]

\* the replies of the HTTP state endpoint and of request_state_sync were
\* computed from the same room state
RepliesOfOneRoomState ==
    /\ state_reply # <<>> /\ state_reply[1].pending = <<>>
    /\ sync_reply # <<>>
    /\ state_reply[1].room = sync_reply[1].room

\* C18: for one room state, the payload of the HTTP state endpoint and the
\* payload sent in reply to request_state_sync have the same fields with the
\* same values apart from server_time and time_remaining, question_number,
\* the question payload and the routing hints included
C18_StateRepliesAgree ==
    RepliesOfOneRoomState =>
        SamePayload(ModuloTime(state_reply[1].payload), ModuloTime(sync_reply[1].payload))

\* the question payload carries the correct answer
HasCorrectAnswer(q) == "correctAnswer" \in DOMAIN q

\* C19: a caller without administrator token gets no correctAnswer, whatever
\* it puts into participantId or into its socket frames: not in the questions
\* of the questions endpoint, not in the question of a sync_state reply
C19_NoCorrectAnswerWithoutToken ==
    /\ \A i \in 1..Len(questions_reply) :
          ~questions_reply[i].with_token =>
              \A n \in DOMAIN questions_reply[i].questions :
                  ~HasCorrectAnswer(questions_reply[i].questions[n])
    /\ \A i \in 1..Len(sync_reply) :
          sync_reply[i].to \notin TokenHolders =>
              \A n \in DOMAIN sync_reply[i].payload.question :
                  ~HasCorrectAnswer(sync_reply[i].payload.question[n])

\* socket s handles one of the admin frames of the identification
\* specification in this step
AdminFrame(s) ==
    \/ ShowAnswer(s)
    \/ \E p \in Submitters : KickPlayer(s, p)
    \/ KickPlayerRemove(s)

\* C20: a socket that presented no administrator token never has the admin
\* role, whatever frames it sends (admin_joined included), and its admin
\* frames change no room state and delete no participant
C20_NoAdminRoleWithoutToken ==
    /\ [](\A s \in Sockets \ TokenHolders : ~ws[s].is_admin)
    /\ [][\A s \in Sockets \ TokenHolders :
            AdminFrame(s) => UNCHANGED <<room_state, db_participants>>]_vars

\* socket s takes one of the admin branches in this step
AdminBranch(s) ==
    \/ \E t \in Tasks : QuizStarting(s, t)
    \/ ShowAnswer(s)
    \/ ShowLeaderboard(s)
    \/ NextQuestion(s)
    \/ \E p \in Pids : KickPlayer(s, p)

\* C21: on a socket that has not sent admin_joined, a frame tagged
\* quiz_starting, show_answer, show_leaderboard, next_question or kick_player
\* takes no admin branch, and such a frame and a frame with an unknown tag
\* leave the room state and the store as they are, enqueue no broadcast and
\* start no countdown task
C21_NonAdminFramesDropped ==
    [][\A s \in Sockets :
         ~ws[s].is_admin =>
            /\ ~AdminBranch(s)
            /\ (\E tag \in FrameTags : DroppedFrame(s, tag)) =>
                  UNCHANGED <<room_state, store, broadcast_queue, countdown>>]_vars

\* a socket that is not admin has had a show_answer frame dropped in a room
\* that holds a participant and is in a question
C21_Witness ==
    \E s \in Sockets :
        /\ ~ws[s].is_admin
        /\ ws[s].msg_type = "show_answer"
        /\ room_state # <<>>
        /\ Room.quiz_state = QUESTION
        /\ Room.participants # {}

\* the weight W of a question: its max_base, 0 for the noPoints setting
Weight(question) ==
    IF ~question.points.is_int /\ question.points.s = "noPoints" THEN 0
    ELSE max_base_of(question.points)

\* calc_points_v2 has returned
Scored == points_call # <<>> /\ points_call[1].result # <<>>
ScoredCall == points_call[1]
ScoredPoints == points_call[1].result[1]

\* C22: the engine returns (0, 0, 0) whenever the answer is incorrect or the
\* weight of the question is zero (noPoints, or the integer 0), for every
\* elapsed time, history and arrival position
C22_NoPointsWhenWrongOrWeightless ==
    (Scored /\ (~ScoredCall.correct \/ Weight(ScoredCall.question) = 0)) =>
        ScoredPoints = Points(0, 0, 0)

\* a correct answer on a question of positive weight, given at or after the
\* time limit
LateCorrectAnswer ==
    /\ Scored
    /\ ScoredCall.correct
    /\ Weight(ScoredCall.question) > 0
    /\ ScoredCall.time_taken >= ScoredCall.question.timeLimit * 10

StreakLength == 1 + consecutive_correct(ScoredCall.previous_answers)

\* the call reached the line that folds the position bonus into time_bonus
PositionFolded ==
    /\ ScoredCall.correct
    /\ ~(~ScoredCall.question.points.is_int /\ ScoredCall.question.points.s = "noPoints")
    /\ ScoredCall.question.timeLimit # 0

\* subtotal: base + time bonus before the position bonus is added
Subtotal ==
    ScoredPoints.base_pts + ScoredPoints.time_bonus
        - (IF PositionFolded /\ ScoredCall.answer_position < 5
           THEN 5 - ScoredCall.answer_position ELSE 0)

\* floor(pct/100 * subtotal) with pct 0, 5, 10, 20, 30 for k = 1, 2, 3, 4, >= 5
StreakBonusByRule ==
    LET pct == IF StreakLength = 1 THEN 0
               ELSE IF StreakLength = 2 THEN 5
               ELSE IF StreakLength = 3 THEN 10
               ELSE IF StreakLength = 4 THEN 20
               ELSE 30
    IN (Subtotal * pct) \div 100

Ranked == leaderboard_call # <<>> /\ leaderboard_call[1].result # <<>>
Board == leaderboard_call[1].result[1]

\* two entries have the same score and the same rounded total time
Tied(a, b) == a.score = b.score /\ a.totalTime = b.totalTime

\* C25: the entries are ordered by score descending, then total time
\* ascending; two entries have the same rank exactly when score and rounded
\* total time are both equal; an entry that is not tied with the one before
\* it has its position in the list as rank (1, 1, 3, never 1, 1, 2)
C25_LeaderboardRanks ==
    Ranked =>
        /\ \A i, j \in 1..Len(Board) :
              i < j => \/ Board[i].score > Board[j].score
                       \/ /\ Board[i].score = Board[j].score
                          /\ Board[i].totalTime <= Board[j].totalTime
        /\ \A i, j \in 1..Len(Board) :
              (Board[i].rank = Board[j].rank) <=> Tied(Board[i], Board[j])
        /\ \A i \in 1..Len(Board) :
              (i = 1 \/ ~Tied(Board[i], Board[i - 1])) => Board[i].rank = i

\* two documents whose total times differ but round to the same value share
\* rank 1, the third entry has rank 3
C25_Witness ==
    /\ Ranked
    /\ Len(Board) = 3
    /\ Board[1].rank = 1 /\ Board[2].rank = 1 /\ Board[3].rank = 3
    /\ leaderboard_call[1].docs[Board[1].participantId].totalTime
         # leaderboard_call[1].docs[Board[2].participantId].totalTime

\* a submit-answer of p arrives in this step, on slot r, while the room of the
\* quiz is in ENDED or PODIUM
LateSubmit(r, p) ==
    /\ HasRoom
    /\ Phase \in {ENDED, PODIUM}
    /\ \E a \in Submissions, tt \in SubmitTimes : SubmitAnswer(r, p, a[1], a[2], tt)

\* the request on slot r is over, and it changed neither the store nor the
\* room nor the queue
EndsWithoutEffect(r) ==
    /\ req'[r].pc = "idle"
    /\ UNCHANGED <<store, room_state, broadcast_queue>>

\* C26 as stated: in ENDED or PODIUM every submit-answer, also one of a
\* participant in the answered set, gets the ignored reply and changes
\* nothing
C26_LateSubmitIgnored ==
    [][\A r \in Requests, p \in Pids :
         LateSubmit(r, p) => (req'[r].reply = 200 /\ EndsWithoutEffect(r))]_vars

\* C26, amended: in ENDED or PODIUM a submit-answer of a participant who is
\* not in the answered set gets the ignored reply, one of a participant in
\* the answered set gets 400; neither changes score, answers, answered set or
\* queue
C26_LateSubmitIgnoredOrDuplicate ==
    [][\A r \in Requests, p \in Pids :
         LateSubmit(r, p) =>
            /\ req'[r].reply = (IF p \in Room.answered THEN 400 ELSE 200)
            /\ EndsWithoutEffect(r)]_vars

\* in a room at the podium one submission was ignored and one, of a
\* participant in the answered set, was refused
C26_Witness ==
    /\ HasRoom
    /\ Phase = PODIUM
    /\ Room.answered # {}
    /\ \E r \in Requests : req[r].reply = 400

\* no status change is being handled: the last one, if any, has completed
StatusChangeCompleted == http_admin.pc = "idle"

\* C27: once a status change has completed, a read of the quiz through the
\* cache returns the status that is in the store, not one cached before the
\* change
C27_CacheFollowsStatusChange ==
    StatusChangeCompleted =>
        \A hit \in CacheHits(mem_quiz) :
            QuizRead(hit) # <<>> /\ db_quiz # <<>> =>
                QuizRead(hit)[1].status = db_quiz[1].status

\* C28: two distinct participant documents of the quiz never carry the same
\* avatar seed
C28_AvatarSeedsDiffer ==
    \A p, q \in Pids :
        p # q /\ db_participants[p] # <<>> /\ db_participants[q] # <<>> =>
            db_avatar[p] # db_avatar[q]

\* a submit-answer request that has passed the duplicate check on the answered
\* set and has not yet marked its participant as answered
PastDuplicateCheck(r) == req[r].pc \in {"fetch", "persist", "mark"}

\* C29: while a submit-answer request of a joined participant is between its
\* duplicate check and its mark-answered step in a room, no other
\* submit-answer request of the same participant for the same question is
\* past the duplicate check
C29_SubmitSerializedPerParticipant ==
    \A r1, r2 \in Requests :
        /\ r1 # r2
        /\ room_state # <<>>
        /\ PastDuplicateCheck(r1) /\ PastDuplicateCheck(r2)
        /\ db_participants[req[r1].participantId] # <<>>
        /\ req[r1].questionIndex = req[r2].questionIndex
        => req[r1].participantId # req[r2].participantId

\* set_question has run in the room: a quiz_starting or next_question event
\* has introduced the room's current question (the handlers emit the event
\* in the step that calls set_question, and nothing else changes
\* current_question or question_start_time)
QuestionIntroduced == HasRoom /\ Room.question_start_time # NoTime

\* C30: a show_answer event is emitted into a room only after a quiz_starting
\* or next_question event has introduced the room's current question
C30_ShowAnswerAfterQuestion ==
    [][\A s \in Sockets : (ShowAnswer(s) /\ HasRoom) => QuestionIntroduced]_vars

\* no handler is between two of its steps: every socket is absent or waiting
\* for a frame on an open transport, no status change, submission, join or
\* countdown is in progress
Quiescent ==
    /\ \A s \in Sockets : ws[s].st = "none" \/ Receiving(s)
    /\ http_admin.pc = "idle"
    /\ \A r \in Requests : req[r].pc = "idle"
    /\ \A j \in Joins : join_req[j].pc = "idle"
    /\ \A t \in Tasks : countdown[t] = NoTask

\* C31: in every quiescent state the quiz code has a room state, a connection
\* set and a broadcast queue with its worker all together or none of them,
\* and no worker of a torn-down room is left running
C31_RoomResourcesAgree ==
    Quiescent =>
        /\ HasRoom <=> active_connections # <<>>
        /\ HasRoom <=> broadcast_queue # <<>>
        /\ orphan_hub = <<>>

\* C32: the code has a room state only while its connection set holds a
\* socket; the pruning of the last dead socket tears the room down
C32_RoomOnlyWithSockets == HasRoom => Conns # {}

\* C33: the read loop of a socket whose transport is open does not end,
\* whatever happens while one of its commands is handled
C33_ReadLoopSurvivesErrors ==
    [][\A s \in Sockets : ws[s].st = "open" => ws'[s].st # "none"]_vars

\* C34: an auto_submit frame for participant p in a room adds p to the
\* answered set, changes no other field of the room state (the per-option
\* tally is one) and nothing in the store, and enqueues one answer_count
\* event that reports the size of the answered set; for a p already in the
\* answered set the set and the reported count are what they were
C34_AutoSubmitMarksOnly ==
    [][\A s \in Sockets, p \in Pids :
          (AutoSubmit(s, p) /\ HasRoom) =>
             /\ Room'.answered = Room.answered \cup {p}
             /\ [Room' EXCEPT !.answered = Room.answered] = Room
             /\ UNCHANGED store
             /\ broadcast_queue'[1] = Append(broadcast_queue[1],
                     Msg("answer_count", 0, FALSE, Cardinality(Room'.answered)))
             /\ p \in Room.answered =>
                   /\ Room'.answered = Room.answered
                   /\ LastEvent'.n = Cardinality(Room.answered)]_vars

\* an auto_submit has marked p1 and its answer_count is on the queue
C34_Witness ==
    /\ HasRoom /\ "p1" \in Room.answered
    /\ HasEvent /\ LastEvent = Msg("answer_count", 0, FALSE, 1)

\* the step enqueues an event
Enqueues == broadcast_queue # <<>> /\ broadcast_queue' # broadcast_queue

\* C35: in a room, a reaction frame is broadcast only if its emoji is on the
\* allow-list, its socket has identified itself and is not an admin socket
\* and the last reaction broadcast for the same user id, from whichever
\* socket, is at least 2 s old; the time of the broadcast is then the user's
\* rate-limit timestamp.  A frame that is not broadcast changes nothing in
\* the room, and the timestamps change in no other step.
C35_ReactionsTwoSecondsApart ==
    /\ [][\A s \in Sockets, emoji \in Emojis :
            (Reaction(s, emoji) /\ HasRoom) =>
               LET u == ws[s].user_id
               IN /\ Enqueues =>
                       /\ emoji \in allowed /\ u # "" /\ ~ws[s].is_admin
                       /\ \/ Room.last_reaction[u] = NoTime
                          \/ now' - Room.last_reaction[u] >= 2
                       /\ Room'.last_reaction[u] = now'
                       /\ LastEvent' = ReactionMsg(emoji, u)
                  /\ ~Enqueues => UNCHANGED <<room_state, broadcast_queue>>]_vars
    /\ [][(HasRoom /\ HasRoom' /\ Room'.last_reaction # Room.last_reaction) =>
            \E s \in Sockets, emoji \in Emojis : Reaction(s, emoji) /\ Enqueues]_vars

\* two sockets have identified themselves as p1; a reaction of p1 was
\* broadcast and a later reaction frame on one of the sockets was not
C35_Witness ==
    /\ HasRoom /\ Room.last_reaction["p1"] # NoTime
    /\ \A s \in RoomClients : Receiving(s) /\ ws[s].user_id = "p1" /\ ~ws[s].is_admin
    /\ \E s \in RoomClients : ws[s].msg_type = "reaction"
    /\ now - Room.last_reaction["p1"] < 2

\* the room is in QUESTION on question 0 and quiz_starting is the event
\* enqueued last
QuizStarted ==
    /\ HasRoom /\ Phase = QUESTION /\ Room.current_question = 0
    /\ HasEvent /\ LastEvent.type = "quiz_starting"

\* C36: once a quiz_starting frame of an admin has created the countdown
\* task of a quiz with questions, the room (as long as it exists) reaches
\* QUESTION with current_question 0 and a quiz_starting event is enqueued
C36_CountdownReachesQuestion ==
    \A t \in Tasks : (countdown[t].pc = "load") ~> (QuizStarted \/ ~HasRoom)

\* a countdown has run to its end in a room
C36_Witness == QuizStarted /\ \A t \in Tasks : countdown[t] = NoTask

\* C37: a quiz_starting frame creates a countdown task only in LOBBY and
\* only while no countdown task of the room is running
C37_StartOnlyFromLobby ==
    [][\A s \in Sockets, t \in Tasks :
          QuizStarting(s, t) =>
             /\ HasRoom /\ Phase = LOBBY
             /\ \A u \in Tasks : countdown[u] = NoTask]_vars

\* a submit-answer request that has been scored and is not yet marked
Scoring(r) == req[r].pc \in {"persist", "mark"}

\* C38: two submissions of different participants to the same question of a
\* room that are both scored and not yet marked were given different
\* arrival positions
C38_PositionsDiffer ==
    \A r1, r2 \in Requests :
        /\ r1 # r2 /\ HasRoom
        /\ Scoring(r1) /\ Scoring(r2)
        /\ req[r1].participantId # req[r2].participantId
        /\ req[r1].questionIndex = req[r2].questionIndex
        => req[r1].answer_position # req[r2].answer_position

\* C39: a submit-answer that is marked answered in a room was made for the
\* question that is the room's current question at that time
C39_AcceptedForCurrentQuestion ==
    [][\A r \in Requests :
          (SubmitMark(r) /\ HasRoom) => req[r].questionIndex = Room.current_question]_vars

\* socket o is connected, open and identified as participant u, its
\* participant_joined frame handled to the end
IdentifiedAs(o, u) ==
    /\ o \in Conns /\ Receiving(o)
    /\ ws[o].user_id = u /\ ~ws[o].is_admin

\* C40: the end of the handler of one socket of participant u, while another
\* socket identified as u stays connected, takes u neither out of the room's
\* participants nor out of its answered set
C40_OlderSocketLeavesParticipant ==
    [][\A s \in Sockets, u \in Pids :
          /\ WsDisconnect(s) /\ ws[s].user_id = u
          /\ HasRoom /\ u \in Room.participants
          /\ \E o \in Sockets \ {s} : IdentifiedAs(o, u)
          => /\ HasRoom'
             /\ u \in Room'.participants
             /\ u \in Room.answered => u \in Room'.answered]_vars

====
